---------------------------- MODULE Spec2Model ----------------------------
(***************************************************************************)
(* A2Stream player: the pulse generator synthesizer (gen_player,           *)
(* gen_pulse, gen_pulse_34), the flow table that chains the generators,    *)
(* the generated jump chain (enter, pulses, leave) and the driver loop of  *)
(* play(), modelled from src/player.c.                                     *)
(*                                                                         *)
(* C arrays are 0-based and TLA+ sequences 1-based: the C expression       *)
(* opc[k] is opc[k+1] here, flow[s][g] is flow[s+1][g+1].                  *)
(***************************************************************************)
EXTENDS Integers, Sequences, FiniteSets, TLC

(***************************************************************************)
(* Program constants (player.c 157-209).                                   *)
(***************************************************************************)
DTY_MAX == 36
CYC_MAX == 46
GEN_MAX == 43
GEN_END == 5
GEN_NUM == 5
SET_NUM == 2
RW_SKEW == 4

SPKR_PTR == \hFA
VISU_PTR == \hFC
RING_BUF == \h0100
SAVE_BUF == \h1F00
PLAY_BUF == \h4000
VISU_BUF_Low == \h10D0
VISU_BUF == \h10D8
VISU_MAX == 140
VISU_L2H == 13
VISU_NUM == 39
LEAVE    == \hD400
HIGH     == \hC085
LOW      == \hC086
DATA     == \hC087
HIRES_186 == \h2BD0
HIRES_187 == \h2FD0
HIRES_188 == \h33D0
HIRES_189 == \h37D0
HIRES_190 == \h3BD0
HIRES_191 == \h3FD0
MOCK_BUF == \hDF00

SILENCE == PLAY_BUF + (DTY_MAX \div 2) * \h0100

LO(addr) == addr % 256
HI(addr) == (addr \div 256) % 256

(* bitwise or of two bytes, as the |= of fix_eth computes it *)
RECURSIVE BitOr(_, _)
BitOr(a, b) ==
  IF a = 0 THEN b
  ELSE IF b = 0 THEN a
  ELSE (IF a % 2 = 1 \/ b % 2 = 1 THEN 1 ELSE 0) + 2 * BitOr(a \div 2, b \div 2)

(***************************************************************************)
(* struct ins and the instruction catalog (player.c 211-245).  opc always  *)
(* has five cells; cells an initializer leaves out are zero.               *)
(***************************************************************************)
Ins(opc, len, cyc, eth) ==
  [opc |-> opc \o [i \in 1..(5 - Len(opc)) |-> 0], len |-> len, cyc |-> cyc, eth |-> eth]

BRK           == Ins(<<\h00>>, 0, 0, FALSE)
NOP           == Ins(<<\hEA>>, 1, 2, FALSE)
TAY           == Ins(<<\hA8>>, 1, 2, FALSE)
INC           == Ins(<<\h1A>>, 1, 2, FALSE)
INY           == Ins(<<\hC8>>, 1, 2, FALSE)
PLA           == Ins(<<\h68>>, 1, 4, FALSE)
PLX           == Ins(<<\hFA>>, 1, 4, FALSE)
BRA(disp)     == Ins(<<\h80, disp>>, 2, 3, FALSE)
BNE_JMP(addr) == Ins(<<\hD0, \h03, \h4C, LO(addr), HI(addr)>>, 5, 3, FALSE)
BPL_JMP(addr) == Ins(<<\h10, \h03, \h4C, LO(addr), HI(addr)>>, 5, 3, FALSE)
JMP(addr)     == Ins(<<\h4C, LO(addr), HI(addr)>>, 3, 3, FALSE)
AND_IM(byte)  == Ins(<<\h29, byte>>, 2, 2, FALSE)
ORA_IM(byte)  == Ins(<<\h09, byte>>, 2, 2, FALSE)
LDA_IM(byte)  == Ins(<<\hA9, byte>>, 2, 2, FALSE)
LDY_IM(byte)  == Ins(<<\hA0, byte>>, 2, 2, FALSE)
STA_ZP(addr)  == Ins(<<\h85, addr>>, 2, 3, FALSE)
LDA_A(addr)   == Ins(<<\hAD, LO(addr), HI(addr)>>, 3, 4, FALSE)
LDA_E(addr)   == Ins(<<\hAD, LO(addr), HI(addr)>>, 3, 4, TRUE)
LDY_E(addr)   == Ins(<<\hAC, LO(addr), HI(addr)>>, 3, 4, TRUE)
STA_A(addr)   == Ins(<<\h8D, LO(addr), HI(addr)>>, 3, 4, FALSE)
STX_A(addr)   == Ins(<<\h8E, LO(addr), HI(addr)>>, 3, 4, FALSE)
STA_E(addr)   == Ins(<<\h8D, LO(addr), HI(addr)>>, 3, 4, TRUE)
STY_E(addr)   == Ins(<<\h8C, LO(addr), HI(addr)>>, 3, 4, TRUE)
LDA_AY(addr)  == Ins(<<\hB9, LO(addr), HI(addr)>>, 3, 4, FALSE)
STA_AY(addr)  == Ins(<<\h99, LO(addr), HI(addr)>>, 3, 5, FALSE)
LDA_I(addr)   == Ins(<<\hB2, addr>>, 2, 5, FALSE)
LDA_IY(addr)  == Ins(<<\hB1, addr>>, 2, 5, FALSE)
STA_I(addr)   == Ins(<<\h92, addr>>, 2, 5, FALSE)

(***************************************************************************)
(* The static instructions of the synthesizer (player.c 247-253).  spkr_a  *)
(* is mutable (gen_player patches it for tape out): this is its initial    *)
(* value, the current one is the variable spkr_a.                          *)
(***************************************************************************)
nop      == NOP
bra_nop  == BRA(\h00)
spkr_a0  == STA_A(\hC030)
spkr_i   == STA_I(SPKR_PTR)
plx      == PLX
stx      == STX_A(\h0000)
jmp      == JMP(\h0000)

(* pulse_34 (player.c 255-263); its two speaker accesses are literals *)
pulse_34 ==
  << STA_A(\hC030), NOP, NOP, STA_A(\hC030), PLX, STX_A(\h0000), BRK >>

(***************************************************************************)
(* The task table (player.c 265-369).  eth is the build flag HAVE_ETH.     *)
(***************************************************************************)
prolog_1_Bne ==
  << LDA_A(\hC000), BNE_JMP(LEAVE), LDA_IM(\h04), STA_E(HIGH),
     LDY_IM(\h26), STY_E(LOW), BRK >>

prolog_1 ==
  << LDA_A(\hC000), BPL_JMP(LEAVE), LDA_IM(\h04), STA_E(HIGH),
     LDY_IM(\h26), STY_E(LOW), BRK >>

prolog_2(eth) ==
  << LDA_E(DATA) >> \o (IF eth THEN << BNE_JMP(LEAVE) >> ELSE << >>) \o
  << LDY_IM(\h28), STY_E(LOW), LDA_E(DATA), LDY_E(DATA), BRK >>

prolog_3 ==
  << AND_IM(\h1F), ORA_IM(\h60), STA_E(HIGH), STY_E(LOW),
     LDY_IM(RW_SKEW - 1), BRK >>

transf_1(eth) ==
  << INY, IF eth THEN LDA_E(DATA) ELSE LDA_AY(MOCK_BUF), STA_AY(RING_BUF),
     INY, BRK >>

transf_2_OneIndex(eth) ==
  << IF eth THEN LDA_E(DATA) ELSE LDA_AY(MOCK_BUF), STA_AY(RING_BUF), NOP,
     IF eth THEN LDA_E(DATA) ELSE LDA_AY(MOCK_BUF), STA_AY(RING_BUF), BRK >>

transf_2(eth) ==
  << IF eth THEN LDA_E(DATA) ELSE LDA_AY(MOCK_BUF), STA_AY(RING_BUF), INY,
     IF eth THEN LDA_E(DATA) ELSE LDA_AY(MOCK_BUF), STA_AY(RING_BUF), BRK >>

epilog_1 ==
  << LDA_IM(\h04), STA_E(HIGH), LDY_IM(\h28), STY_E(LOW), LDA_E(DATA),
     STY_E(LOW), BRK >>

epilog_2 ==
  << INC, STA_E(DATA), LDY_IM(\h01), STY_E(LOW), LDA_IM(\h40), STA_E(DATA),
     BRK >>

init_vis ==
  << PLA, STA_ZP(VISU_PTR + 1), LDA_I(VISU_PTR), TAY, STA_AY(\hC054),
     LDY_IM(\h01), BRK >>

visual_1 ==
  << LDA_IY(VISU_PTR), STA_AY(HIRES_186), STA_AY(HIRES_187),
     STA_AY(HIRES_188), BRK >>

visual_2 ==
  << STA_AY(HIRES_189), STA_AY(HIRES_190), STA_AY(HIRES_191), INY, BRK >>

TaskNames ==
  { "prolog_1", "prolog_2", "prolog_3", "transf_1", "transf_2",
    "epilog_1", "epilog_2", "init_vis", "visual_1", "visual_2" }

(* the task arrays as the compiler lays them out, before any fix_eth *)
Tasks0(eth) ==
  [ n \in TaskNames |->
      CASE n = "prolog_1" -> prolog_1
        [] n = "prolog_2" -> prolog_2(eth)
        [] n = "prolog_3" -> prolog_3
        [] n = "transf_1" -> transf_1(eth)
        [] n = "transf_2" -> transf_2(eth)
        [] n = "epilog_1" -> epilog_1
        [] n = "epilog_2" -> epilog_2
        [] n = "init_vis" -> init_vis
        [] n = "visual_1" -> visual_1
        [] n = "visual_2" -> visual_2 ]

(***************************************************************************)
(* The flow table (player.c 472-487): flow[s+1][g+1] = task and index of   *)
(* the next pulse generator.                                               *)
(***************************************************************************)
FlowNode(ins, nxt) == [ins |-> ins, nxt |-> nxt]

(* the table with the second prolog stage chaining back to slot 0 *)
flow_Prolog2Wraps ==
  << << FlowNode("prolog_1", 3),
        FlowNode("transf_2", 2),
        FlowNode("transf_1", 1),
        FlowNode("prolog_2", 0),
        FlowNode("prolog_3", 2) >>,
     << FlowNode("visual_1", 4),
        FlowNode("epilog_1", 2),
        FlowNode("epilog_2", 3),
        FlowNode("init_vis", 0),
        FlowNode("visual_2", 0) >> >>

flow ==
  << << FlowNode("prolog_1", 3),
        FlowNode("transf_2", 2),
        FlowNode("transf_1", 1),
        FlowNode("prolog_2", 4),
        FlowNode("prolog_3", 2) >>,
     << FlowNode("visual_1", 4),
        FlowNode("epilog_1", 2),
        FlowNode("epilog_2", 3),
        FlowNode("init_vis", 0),
        FlowNode("visual_2", 0) >> >>

(* flow[ps][pg].ins and flow[ps][pg].nxt; the second with every slot *)
(* chaining to the slot after it                                   *)
FlowIns(ps, pg) == flow[ps + 1][pg + 1].ins

FlowNxt_Ring(ps, pg) == (pg + 1) % GEN_NUM

FlowNxt(ps, pg) == flow[ps + 1][pg + 1].nxt

(* the task the flow diagram enters a page set with (player.c 423-453): *)
(* prolog_1 on the left, epilog_1 on the right                          *)
EntryTask(ps) == IF ps = 0 THEN "prolog_1" ELSE "epilog_1"

Sets   == 0..(SET_NUM - 1)
Slots  == 0..(GEN_NUM - 1)
Duties == 0..(DTY_MAX - 1)

AllGenerators == Sets \X Slots \X Duties

(* fix_eth (player.c 489-499): or the slot offset into the low address   *)
(* byte of every Ethernet instruction, up to the BRK end marker          *)
RECURSIVE fix_eth_from(_, _, _)
fix_eth_from(ins, i, ofs) ==
  IF ins[i].opc[1] = 0 THEN ins
  ELSE fix_eth_from(
         IF ins[i].eth
           THEN [ins EXCEPT ![i].opc[2] = BitOr(@, ofs)]
           ELSE ins,
         i + 1, ofs)

fix_eth(ins, ofs) == fix_eth_from(ins, 1, ofs)


(***************************************************************************)
(* The synthesizer's working state.  A record st holds the locals of       *)
(* gen_pulse / gen_pulse_34:                                               *)
(*   org, ptr, cyc, dty, nxt, loc, low   the C locals and parameters       *)
(*   task, ins     the task array and the index ins points at              *)
(*   ins_34        the index into pulse_34 (gen_pulse_34 only)             *)
(*   ph            the loop gen_pulse_34 is in                             *)
(*   code          the bytes written from org on (Unwritten: a cell the    *)
(*                 generator skipped with ptr += 2 and has not yet set)    *)
(*   out           one record per instruction put: its kind, the value of  *)
(*                 the cycle counter and the byte offset where it starts   *)
(*   wild          *loc was written through an unset loc                   *)
(***************************************************************************)
Unwritten == 0 - 1
NoLoc     == 0 - 1

Bytes(i) == SubSeq(i.opc, 1, i.len)

(* *ptr++ = b for every b of bytes *)
Put(st, bytes) ==
  [st EXCEPT !.code = @ \o bytes, !.ptr = @ + Len(bytes)]

(* bookkeeping of the instruction about to be put at ptr *)
Note(st, kind, at, len, cost, idx) ==
  [st EXCEPT !.out = Append(@, [kind |-> kind, at |-> at, ofs |-> st.ptr - st.org,
                                len |-> len, cyc |-> cost, idx |-> idx])]

(* put instruction i completely and count its cycles *)
PutIns(st, kind, i, idx) ==
  [Put(Note(st, kind, st.cyc, i.len, i.cyc, idx), Bytes(i)) EXCEPT !.cyc = @ + i.cyc]

(* ++nxt (player.c 577, 593); the first as if the pull were the last *)
(* work on the next sample                                           *)
NxtSucc_PullOnly(n) == "done"

NxtSucc(n) == IF n = "pull" THEN "store" ELSE "done"

(* the fit rule without its duty boundary *)
Fits_NoBoundary(st, cost) == TRUE

(* the fit rule without "already after duty end" *)
Fits_BeforeOnly(st, cost) == st.cyc + cost <= st.dty

(* "instruction fits before duty end" or "already after duty end"          *)
(* (player.c 568-569, 582-583, 598-599)                                    *)
Fits(st, cost) == st.cyc + cost <= st.dty \/ st.cyc > st.dty

(* the odd fill test without its "before duty end" half *)
OddFill_AfterOnly(st) == st.cyc > st.dty /\ (st.cyc - jmp.cyc) % 2 # 0

(* the odd fill test without its "after duty end" half *)
OddFill_BeforeOnly(st) == st.cyc < st.dty /\ (st.dty - st.cyc) % 2 # 0

(* "if number of cycles to fill is odd" (player.c 613-614) *)
OddFill(st) ==
  \/ st.cyc < st.dty /\ (st.dty - st.cyc) % 2 # 0
  \/ st.cyc > st.dty /\ (st.cyc - jmp.cyc) % 2 # 0

(* while (cyc + jmp.cyc < CYC_MAX) (player.c 538, 707) *)
LoopCond(st) == st.cyc + jmp.cyc < CYC_MAX

(* gen_pulse up to the loop (player.c 509-536): the duty end for generator *)
(* 34, the duty start, cyc and dty.  sa is the current spkr_a.             *)
GenPulseInit(ptr, task, dty, low, sa) ==
  LET st0 == [org |-> ptr, ptr |-> ptr, cyc |-> 0, dty |-> dty, nxt |-> "pull",
              task |-> task, ins |-> 1, ins_34 |-> 0, ph |-> "loop",
              loc |-> NoLoc, low |-> low, code |-> << >>, out |-> << >>,
              wild |-> FALSE]
      st1 == Put(Note(st0, "pre_end", 0 - (sa.cyc + 2 * nop.cyc), 3, sa.cyc, 0),
                 << sa.opc[1], sa.opc[2], sa.opc[3] >>)
      st2 == Put(Note(st1, "pre_nop", 0 - 2 * nop.cyc, 1, nop.cyc, 0), << nop.opc[1] >>)
      st3 == Put(Note(st2, "pre_nop", 0 - nop.cyc, 1, nop.cyc, 0), << nop.opc[1] >>)
      st4 == Put(Note(st3, "dty_start", 0, 3, sa.cyc, 0),
                 << sa.opc[1], sa.opc[2], sa.opc[3] >>)
  IN  [st4 EXCEPT !.cyc = sa.cyc, !.dty = dty + sa.cyc]

(* one iteration of the placement loop (player.c 540-629); the first with *)
(* the task instructions put ahead of the pull and the store              *)
GenPulseStep_TaskFirst(st, sa) ==
  IF st.cyc = st.dty
    THEN [Put(Note(st, "dty_end", st.cyc, 3, sa.cyc, 0),
              << sa.opc[1], sa.opc[2], sa.opc[3] >>) EXCEPT !.cyc = @ + sa.cyc]
  ELSE IF st.cyc + 1 = st.dty
    THEN [Put(Note(st, "dty_end_i", st.cyc, 2, spkr_i.cyc, 0),
              << spkr_i.opc[1], spkr_i.opc[2] >>) EXCEPT !.cyc = @ + spkr_i.cyc]
  ELSE IF st.task[st.ins].opc[1] # 0 /\ Fits(st, st.task[st.ins].cyc)
    THEN [PutIns(st, "task", st.task[st.ins], st.ins) EXCEPT !.ins = @ + 1]
  ELSE IF st.nxt = "pull" /\ Fits(st, plx.cyc)
    THEN [Put(Note(st, "plx", st.cyc, 1, plx.cyc, 0), << plx.opc[1] >>)
            EXCEPT !.cyc = @ + plx.cyc, !.nxt = NxtSucc(@)]
  ELSE IF st.nxt = "store" /\ Fits(st, stx.cyc)
    THEN LET a == Put(Note(st, "stx", st.cyc, 3, stx.cyc, 0), << stx.opc[1] >>)
         IN  [a EXCEPT !.loc = a.ptr, !.ptr = @ + 2,
                       !.code = @ \o << Unwritten, Unwritten >>,
                       !.cyc = @ + stx.cyc, !.nxt = NxtSucc(@)]
  ELSE IF OddFill(st)
    THEN [Put(Note(st, "bra", st.cyc, 2, bra_nop.cyc, 0),
              << bra_nop.opc[1], bra_nop.opc[2] >>) EXCEPT !.cyc = @ + bra_nop.cyc]
  ELSE [Put(Note(st, "nop", st.cyc, 1, nop.cyc, 0), << nop.opc[1] >>)
          EXCEPT !.cyc = @ + nop.cyc]

GenPulseStep(st, sa) ==
  IF st.cyc = st.dty
    THEN [Put(Note(st, "dty_end", st.cyc, 3, sa.cyc, 0),
              << sa.opc[1], sa.opc[2], sa.opc[3] >>) EXCEPT !.cyc = @ + sa.cyc]
  ELSE IF st.cyc + 1 = st.dty
    THEN [Put(Note(st, "dty_end_i", st.cyc, 2, spkr_i.cyc, 0),
              << spkr_i.opc[1], spkr_i.opc[2] >>) EXCEPT !.cyc = @ + spkr_i.cyc]
  ELSE IF st.nxt = "pull" /\ Fits(st, plx.cyc)
    THEN [Put(Note(st, "plx", st.cyc, 1, plx.cyc, 0), << plx.opc[1] >>)
            EXCEPT !.cyc = @ + plx.cyc, !.nxt = NxtSucc(@)]
  ELSE IF st.nxt = "store" /\ Fits(st, stx.cyc)
    THEN LET a == Put(Note(st, "stx", st.cyc, 3, stx.cyc, 0), << stx.opc[1] >>)
         IN  [a EXCEPT !.loc = a.ptr, !.ptr = @ + 2,
                       !.code = @ \o << Unwritten, Unwritten >>,
                       !.cyc = @ + stx.cyc, !.nxt = NxtSucc(@)]
  ELSE IF st.task[st.ins].opc[1] # 0 /\ Fits(st, st.task[st.ins].cyc)
    THEN [PutIns(st, "task", st.task[st.ins], st.ins) EXCEPT !.ins = @ + 1]
  ELSE IF OddFill(st)
    THEN [Put(Note(st, "bra", st.cyc, 2, bra_nop.cyc, 0),
              << bra_nop.opc[1], bra_nop.opc[2] >>) EXCEPT !.cyc = @ + bra_nop.cyc]
  ELSE [Put(Note(st, "nop", st.cyc, 1, nop.cyc, 0), << nop.opc[1] >>)
          EXCEPT !.cyc = @ + nop.cyc]

(* *loc = (uint16_t)ptr (player.c 641, 725): little endian, two cells; *)
(* the first as if it were set to the cell of the low byte             *)
SetLoc_LowCell(st) ==
  LET o == st.loc - st.org
  IN  IF st.loc = NoLoc \/ o < 0 \/ o + 2 > Len(st.code)
        THEN [st EXCEPT !.wild = TRUE]
        ELSE [st EXCEPT !.code[o + 1] = LO(st.ptr - 1), !.code[o + 2] = HI(st.ptr - 1)]

SetLoc(st) ==
  LET o == st.loc - st.org
  IN  IF st.loc = NoLoc \/ o < 0 \/ o + 2 > Len(st.code)
        THEN [st EXCEPT !.wild = TRUE]
        ELSE [st EXCEPT !.code[o + 1] = LO(st.ptr), !.code[o + 2] = HI(st.ptr)]

(* the terminal jump and the resolution of loc (player.c 632-642, 716-726) *)
GenFinish(st) ==
  SetLoc([Put(Note(st, "jmp", st.cyc, 2, jmp.cyc, 0), << jmp.opc[1], st.low >>)
            EXCEPT !.cyc = @ + jmp.cyc, !.ph = "done"])

(* the assertions that end gen_pulse (player.c 648-651): the first that *)
(* fails, or "none"                                                     *)
GenPulseAssert(st) ==
  IF st.cyc # CYC_MAX THEN "no cycle count overshoot"
  ELSE IF ~(st.ptr - st.org < GEN_MAX) THEN "no byte length overshoot"
  ELSE IF st.nxt # "done" THEN "no next sample work left"
  ELSE IF st.task[st.ins].opc[1] # 0 THEN "no instruction left"
  ELSE "none"

(* gen_pulse_34 up to its first loop (player.c 658-665) *)
GenPulse34Init(ptr, task, low) ==
  [org |-> ptr, ptr |-> ptr, cyc |-> 0, dty |-> 34, nxt |-> "none",
   task |-> task, ins |-> 1, ins_34 |-> 1, ph |-> "fixed",
   loc |-> NoLoc, low |-> low, code |-> << >>, out |-> << >>, wild |-> FALSE]

(* what the instructions of pulse_34 are, by position (player.c 256-261) *)
Kind34(i) ==
  CASE i = 1 -> "pre_end"
    [] i \in {2, 3} -> "pre_nop"
    [] i = 4 -> "dty_start"
    [] i = 5 -> "plx"
    [] OTHER -> "stx"

(* one step of gen_pulse_34 (player.c 667-714): an iteration of one of   *)
(* its three loops, the loc assignment between the first two, or the BRA *)
(* decision between the last two                                         *)
GenPulse34Step(st) ==
  CASE st.ph = "fixed" ->
         IF pulse_34[st.ins_34].opc[1] # 0
           THEN [PutIns(st, Kind34(st.ins_34), pulse_34[st.ins_34], 0)
                   EXCEPT !.ins_34 = @ + 1]
           ELSE [st EXCEPT !.loc = st.ptr - 2, !.ph = "task"]
    [] st.ph = "task" ->
         IF st.task[st.ins].opc[1] # 0
           THEN [PutIns(st, "task", st.task[st.ins], st.ins) EXCEPT !.ins = @ + 1]
           ELSE IF (st.cyc - jmp.cyc) % 2 # 0
             THEN [Put(Note(st, "bra", st.cyc, 2, bra_nop.cyc, 0),
                       << bra_nop.opc[1], bra_nop.opc[2] >>)
                     EXCEPT !.cyc = @ + bra_nop.cyc, !.ph = "fill"]
             ELSE [st EXCEPT !.ph = "fill"]
    [] OTHER ->
         [Put(Note(st, "nop", st.cyc, 1, nop.cyc, 0), << nop.opc[1] >>)
            EXCEPT !.cyc = @ + nop.cyc]

(* gen_pulse_34 has steps left before its terminal jump *)
GenPulse34More(st) == st.ph # "fill" \/ LoopCond(st)

(* the assertions that end gen_pulse_34 (player.c 731-732) *)
GenPulse34Assert(st) ==
  IF st.cyc # CYC_MAX THEN "no cycle count overshoot"
  ELSE IF ~(st.ptr - st.org < GEN_MAX) THEN "no byte length overshoot"
  ELSE "none"

(* the two functions run to completion *)
RECURSIVE GenPulseLoop(_, _)
GenPulseLoop(st, sa) ==
  IF LoopCond(st) THEN GenPulseLoop(GenPulseStep(st, sa), sa) ELSE st

gen_pulse(ptr, task, dty, low, sa) ==
  GenFinish(GenPulseLoop(GenPulseInit(ptr, task, dty, low, sa), sa))

RECURSIVE GenPulse34Loop(_)
GenPulse34Loop(st) ==
  IF GenPulse34More(st) THEN GenPulse34Loop(GenPulse34Step(st)) ELSE st

gen_pulse_34(ptr, task, low) ==
  GenFinish(GenPulse34Loop(GenPulse34Init(ptr, task, low)))


(***************************************************************************)
(* State of the synthesis (gen_player and the statics it changes).         *)
(***************************************************************************)
VARIABLES
  have_eth,   \* the build: HAVE_ETH defined or not
  gpc,        \* where gen_player is
  e_ofs,      \* gen_player's e_ofs
  t_out,      \* gen_player's t_out
  spkr_a,     \* the static spkr_a
  spkr_ptr,   \* the zero page word at SPKR_PTR
  visu_ptr,   \* the zero page word at VISU_PTR
  tasks,      \* the static task arrays
  s, g, d,    \* gen_player's loop counters
  st,         \* the locals of the running gen_pulse / gen_pulse_34
  built,      \* the (s, g, d) whose generator is complete
  failed      \* the assertion that stopped the program, or "none"

genVars == << have_eth, gpc, e_ofs, t_out, spkr_a, spkr_ptr, visu_ptr, tasks,
              s, g, d, st, built, failed >>

VARIABLES
  ppc,        \* where play() is: "idle", "loop" (at the while), "chain" (in the
              \* image), "leave" (at LEAVE), "returned", "crash" (control is
              \* outside the image and outside leave)
  state,      \* play's state: "playing", "pausing", "waiting"
  kbd,        \* the keyboard latch $C000: bit 7 is the strobe
  connected,  \* what w5100_connected() answers
  cpu,        \* the 65C02 and the memory the generated code changes
  save,       \* the 256 bytes at SAVE_BUF
  script,     \* the bytes the server streams, repeated
  did,        \* what the last iteration of play's loop did
  iters,      \* iterations of play's loop so far
  pulses,     \* generators executed so far
  keys,       \* keys pressed so far
  held,       \* pulses run since the key in the latch was pressed
  host,       \* the machine play() runs on: its stack pointer at enter() and
              \* its stack page, whether it is an Apple IIgs, its speed
              \* register ($C036) at the call and now, and play()'s cya
  walk,       \* a walk along the next-slot indices of the flow table
  mainSt      \* main(): where it is, its locals, and what the session did

playVars == << ppc, state, kbd, connected, cpu, save, script, did, iters,
               pulses, keys, held, host >>

(* the runtime before play() is called, and the walk before it starts *)
NoCpu ==
  [pc |-> 0, A |-> 0, X |-> 0, Y |-> 0, S |-> 0, N |-> FALSE, Z |-> FALSE,
   ring |-> << >>, cells |-> << >>, visu |-> 0, wadr |-> 0, w_rd |-> 0,
   spos |-> 0, plx |-> << >>, halt |-> "run",
   n |-> 0, clk |-> 0, runs |-> << >>, ops |-> << >>, aud |-> << >>]

(* rsr is what w5100_receive_request() answered, NoRsr when it was not called *)
NoRsr == 0 - 1

NoDid == [disc |-> FALSE, query |-> FALSE, rsr |-> NoRsr, enter |-> FALSE,
          mix |-> "none"]

(* cya before play() assigns it *)
NoCya == 0 - 1

NoHost == [S |-> 0, ring |-> << >>, iigs |-> FALSE, speed0 |-> 0, speed |-> 0,
           cya |-> NoCya]

PlayIdle ==
  /\ ppc = "idle" /\ state = "playing" /\ kbd = 0 /\ connected = FALSE
  /\ cpu = NoCpu /\ save = << >> /\ script = << >> /\ did = NoDid
  /\ iters = 0 /\ pulses = 0 /\ keys = 0 /\ held = 0 /\ host = NoHost

NoWalk == [set |-> 0, trail |-> << >>]

WalkIdle == walk = NoWalk

(* main() before its loop over the tracks (a2stream.c 353-360) *)
(* pc is where main() is; i, total and do_again are its locals; gens and   *)
(* plays count the calls of gen_player() and play(); tag, covers, v, v_ptr *)
(* and last are the type read, the cover art loads called, play()'s v and  *)
(* v_ptr and the last visualization load; err and disc tell how the        *)
(* session failed and that w5100_disconnect() was called for it            *)
NoMain ==
  [pc |-> "idle", i |-> 1, total |-> 255, do_again |-> FALSE, gens |-> 0,
   plays |-> 0, tag |-> << >>, covers |-> 0, v |-> 0, v_ptr |-> 0,
   last |-> << >>, err |-> "none", disc |-> FALSE]

MainIdle == mainSt = NoMain

(* the Uthernet II slots gen_player is tried with *)
EthSlots == {0, 3}

NoSt ==
  [org |-> 0, ptr |-> 0, cyc |-> 0, dty |-> 0, nxt |-> "none",
   task |-> << BRK >>, ins |-> 1, ins_34 |-> 0, ph |-> "none",
   loc |-> NoLoc, low |-> 0, code |-> << >>, out |-> << >>, wild |-> FALSE]

(* before gen_player is called *)
GenIdle ==
  /\ have_eth \in BOOLEAN
  /\ gpc = "idle"
  /\ e_ofs = 0
  /\ t_out = FALSE
  /\ spkr_a = spkr_a0
  /\ spkr_ptr = 0
  /\ visu_ptr = 0
  /\ tasks = Tasks0(have_eth)
  /\ s = 0 /\ g = 0 /\ d = 0
  /\ st = NoSt
  /\ built = {}
  /\ failed = "none"

GenInit == GenIdle /\ PlayIdle /\ WalkIdle /\ MainIdle

(* s_ptr and g_ptr of gen_player (player.c 755, 759) *)
s_ptr(ps) == PLAY_BUF + ps * DTY_MAX * \h0100

(* slots laid out at the size of the longest generator's bytes only *)
g_ptr_Tight(ps, pg) == s_ptr(ps) + pg * 40

g_ptr(ps, pg) == s_ptr(ps) + pg * GEN_MAX

(* the low byte gen_player passes for flow node f (player.c 773, 777) *)
Low34(f) == (f.nxt * GEN_MAX) % 256
LowGen_OffByOne(f) == ((f.nxt + 1) * GEN_MAX + GEN_END) % 256

LowGen(f) == (f.nxt * GEN_MAX + GEN_END) % 256

(* the duties gen_player hands to gen_pulse_34 (player.c 771) *)
Is34_BothBoundaries(pd) == pd \in {1, 34}

Is34(pd) == pd = 34

(* uint8_t e_ofs = e_ini << 4 (player.c 739) *)
EOfs(e_ini) == (e_ini * 16) % 256

(* the switch of spkr_a from speaker to tape out (player.c 746-749) *)
SpkrPatch(sa, t) == IF t THEN [sa EXCEPT !.opc[2] = \h20] ELSE sa

(* the address word in spkr_a.opc[1..2] (player.c 750) *)
SpkrWord(sa) == sa.opc[2] + 256 * sa.opc[3]

(***************************************************************************)
(* The image gen_player leaves behind, as a function of its arguments: the *)
(* same gen_pulse / gen_pulse_34, run to completion for every page set,    *)
(* slot and duty (player.c 753-783).                                       *)
(***************************************************************************)
FixedTasks(eth, e_ini) ==
  [n \in TaskNames |-> fix_eth(Tasks0(eth)[n], EOfs(e_ini))]

GenBase(ps, pg, pd) == g_ptr(ps, pg) + pd * \h0100

gen_player(eth, e_ini, t) ==
  [k \in AllGenerators |->
     LET f  == flow[k[1] + 1][k[2] + 1]
         tk == FixedTasks(eth, e_ini)[f.ins]
     IN  IF Is34(k[3])
           THEN gen_pulse_34(GenBase(k[1], k[2], k[3]), tk, Low34(f))
           ELSE gen_pulse(GenBase(k[1], k[2], k[3]), tk, k[3], LowGen(f),
                          SpkrPatch(spkr_a0, t))]

(* the sequence << F(lo), ..., F(hi - 1) >> *)
RECURSIVE Table(_, _, _)
Table(F(_), lo, hi) ==
  IF hi <= lo THEN << >>
  ELSE IF hi = lo + 1 THEN << F(lo) >>
  ELSE Table(F, lo, (lo + hi) \div 2) \o Table(F, (lo + hi) \div 2, hi)

(* the bytes of the image: page by page from PLAY_BUF, and in a page *)
(* slot by slot (sequences, so page p is at p + 1 and slot g at g + 1) *)
ImageCode(eth, e_ini, t) ==
  Table(LAMBDA page :
          Table(LAMBDA pg :
                  gen_player(eth, e_ini, t)[<< page \div DTY_MAX, pg, page % DTY_MAX >>].code,
                0, GEN_NUM),
        0, SET_NUM * DTY_MAX)

(* the slot play() is run with *)
PlaySlot == CHOOSE e_ini \in EthSlots : e_ini > 0

(* the images of the Ethernet build in that slot: for the speaker, and *)
(* for tape out                                                        *)
Player == << ImageCode(TRUE, PlaySlot, FALSE), ImageCode(TRUE, PlaySlot, TRUE) >>

(* gen_player up to its loops (player.c 739-751) *)
GenPlayerBegin(e_ini, t) ==
  /\ gpc = "idle"
  /\ UNCHANGED << playVars, walk, mainSt >>
  /\ e_ofs' = EOfs(e_ini)
  /\ t_out' = t
  /\ spkr_a' = SpkrPatch(spkr_a, t)
  /\ spkr_ptr' = SpkrWord(spkr_a')
  /\ visu_ptr' = VISU_BUF
  /\ s' = 0 /\ g' = 0
  /\ gpc' = "slot"
  /\ UNCHANGED << have_eth, tasks, d, st, built, failed >>

(* the head of one iteration of the g loop (player.c 757-766) *)
SlotBegin ==
  /\ gpc = "slot"
  /\ UNCHANGED << playVars, walk, mainSt >>
  /\ LET f == flow[s + 1][g + 1]
     IN  tasks' = [tasks EXCEPT ![f.ins] = fix_eth(@, e_ofs)]
  /\ d' = 0
  /\ gpc' = "duty"
  /\ UNCHANGED << have_eth, e_ofs, t_out, spkr_a, spkr_ptr, visu_ptr, s, g, st,
                  built, failed >>

(* one iteration of the d loop calls gen_pulse or gen_pulse_34 *)
(* (player.c 766-779)                                          *)
PulseBegin ==
  /\ gpc = "duty"
  /\ UNCHANGED << playVars, walk, mainSt >>
  /\ d < DTY_MAX
  /\ LET f == flow[s + 1][g + 1]
     IN  IF Is34(d)
           THEN /\ st' = GenPulse34Init(g_ptr(s, g) + d * \h0100, tasks[f.ins], Low34(f))
                /\ gpc' = "pulse_34"
           ELSE /\ st' = GenPulseInit(g_ptr(s, g) + d * \h0100, tasks[f.ins], d,
                                      LowGen(f), spkr_a)
                /\ gpc' = "pulse"
  /\ UNCHANGED << have_eth, e_ofs, t_out, spkr_a, spkr_ptr, visu_ptr, tasks,
                  s, g, d, built, failed >>

PulseStep ==
  /\ gpc = "pulse"
  /\ UNCHANGED << playVars, walk, mainSt >>
  /\ LoopCond(st)
  /\ st' = GenPulseStep(st, spkr_a)
  /\ UNCHANGED << have_eth, gpc, e_ofs, t_out, spkr_a, spkr_ptr, visu_ptr, tasks,
                  s, g, d, built, failed >>

(* gen_pulse from the end of its loop to its return, or to the assertion *)
(* that ends the program                                                 *)
PulseEnd ==
  /\ gpc = "pulse"
  /\ UNCHANGED << playVars, walk, mainSt >>
  /\ ~LoopCond(st)
  /\ st' = GenFinish(st)
  /\ failed' = GenPulseAssert(st')
  /\ IF failed' = "none"
       THEN gpc' = "duty" /\ d' = d + 1 /\ built' = built \cup {<< s, g, d >>}
       ELSE gpc' = "abort" /\ UNCHANGED << d, built >>
  /\ UNCHANGED << have_eth, e_ofs, t_out, spkr_a, spkr_ptr, visu_ptr, tasks, s, g >>

Pulse34Step ==
  /\ gpc = "pulse_34"
  /\ UNCHANGED << playVars, walk, mainSt >>
  /\ GenPulse34More(st)
  /\ st' = GenPulse34Step(st)
  /\ UNCHANGED << have_eth, gpc, e_ofs, t_out, spkr_a, spkr_ptr, visu_ptr, tasks,
                  s, g, d, built, failed >>

Pulse34End ==
  /\ gpc = "pulse_34"
  /\ UNCHANGED << playVars, walk, mainSt >>
  /\ ~GenPulse34More(st)
  /\ st' = GenFinish(st)
  /\ failed' = GenPulse34Assert(st')
  /\ IF failed' = "none"
       THEN gpc' = "duty" /\ d' = d + 1 /\ built' = built \cup {<< s, g, d >>}
       ELSE gpc' = "abort" /\ UNCHANGED << d, built >>
  /\ UNCHANGED << have_eth, e_ofs, t_out, spkr_a, spkr_ptr, visu_ptr, tasks, s, g >>

(* the d loop is over: next g, next s, or the end of gen_player *)
(* (player.c 753, 757, 781-783)                                 *)
SlotEnd ==
  /\ gpc = "duty"
  /\ UNCHANGED << playVars, walk, mainSt >>
  /\ d = DTY_MAX
  /\ IF g + 1 < GEN_NUM
       THEN g' = g + 1 /\ s' = s /\ gpc' = "slot"
       ELSE IF s + 1 < SET_NUM
         THEN g' = 0 /\ s' = s + 1 /\ gpc' = "slot"
         ELSE g' = g + 1 /\ s' = s + 1 /\ gpc' = "done"
  /\ UNCHANGED << have_eth, e_ofs, t_out, spkr_a, spkr_ptr, visu_ptr, tasks, d,
                  st, built, failed >>


(***************************************************************************)
(* The 65C02 running the generated code.  A cpu record c holds             *)
(*   pc, A, X, Y, S, N, Z     program counter, registers, the two flags    *)
(*                            the generated code tests                     *)
(*   ring                     the stack page $0100-$01FF                   *)
(*   cells                    bytes the running code has stored elsewhere  *)
(*                            in memory (the jump high byte cells)         *)
(*   visu                     the zero page word at VISU_PTR               *)
(*   wadr, w_rd               the W5100 address register and its socket 0  *)
(*                            RX read pointer register                     *)
(*   spos                     stream bytes read from W5100 RX memory       *)
(*   plx                      the bytes PLX pulled since the pulse began   *)
(*   halt                     "run", "jump" (a JMP was taken: the pulse is *)
(*                            over) or "crash" (no modelled instruction    *)
(*                            at pc)                                       *)
(*   n, clk                   pulses begun and cycles spent since enter()  *)
(*   runs                     where each pulse since enter() began         *)
(*   ops                      the pulls from and stores to the ring buffer *)
(*                            since enter(): the pulse, the kind ("pull"   *)
(*                            for PLX, "pla", "store") and the index       *)
(*   aud                      the accesses to the speaker and to tape out  *)
(*                            since enter(): the pulse, the cycle each     *)
(*                            completed at and the address after its       *)
(*                            instruction                                  *)
(* and env what the machine around it answers during one pulse:            *)
(*   img      the image in memory      kbd     the byte at $C000           *)
(*   reg      the byte a W5100 register answers that the model does not    *)
(*            track: the received size high byte, when the address         *)
(*            register is where prolog_1 puts it                           *)
(*   script   the stream the server sends, repeated                        *)
(*   vis      the byte read from memory the model does not track           *)
(*   e_ofs, spkr   the slot offset and the zero page word at SPKR_PTR      *)
(***************************************************************************)
Unknown == 0 - 1

(* W5100 socket 0 registers and RX memory (the values prolog_1, prolog_2, *)
(* prolog_3, epilog_1 and epilog_2 put into the address register)        *)
W_RX_RSR == \h0426
W_RX_RD  == \h0428
W_RX_MEM == \h6000
W_RX_TOP == \h7FFF

EthAddr(addr, ofs) == HI(addr) * 256 + BitOr(LO(addr), ofs)

(* the byte of the image at addr, Unknown where no generator wrote; of *)
(* generators that overlap, the one written last                       *)
CodeOf(page, base, hit) ==
  IF hit = {} THEN Unknown
  ELSE LET pg == CHOOSE x \in hit : \A y \in hit : y <= x
       IN  page[pg + 1][base - g_ptr(0, pg) + 1]

CodeIn(page, base) ==
  CodeOf(page, base,
         { pg \in Slots : /\ g_ptr(0, pg) <= base
                          /\ base < g_ptr(0, pg) + Len(page[pg + 1]) })

CodeByte(img, addr) ==
  IF HI(addr) < HI(PLAY_BUF) \/ HI(addr) >= HI(PLAY_BUF) + SET_NUM * DTY_MAX
    THEN Unknown
    ELSE CodeIn(img[HI(addr) - HI(PLAY_BUF) + 1], PLAY_BUF + LO(addr))

Mem(c, env, addr) ==
  IF addr \in DOMAIN c.cells THEN c.cells[addr] ELSE CodeByte(env.img, addr)

SetNZ(c, v) == [c EXCEPT !.N = (v >= 128), !.Z = (v = 0)]

(* a read of the W5100 data port: the register or RX memory byte at the *)
(* address register, which then increments                              *)
DataRead(c, env) ==
  LET a == c.wadr
      v == CASE a = W_RX_RSR     -> env.reg
             [] a = W_RX_RD      -> HI(c.w_rd)
             [] a = W_RX_RD + 1  -> LO(c.w_rd)
             [] a >= W_RX_MEM /\ a <= W_RX_TOP ->
                  env.script[(c.spos % Len(env.script)) + 1]
             [] OTHER -> env.reg
  IN  [v |-> v,
       c |-> [c EXCEPT !.wadr = (a + 1) % 65536,
                       !.spos = IF a >= W_RX_MEM /\ a <= W_RX_TOP THEN @ + 1 ELSE @]]

(* a read of memory or I/O at addr: the value and the cpu after it *)
Load(c, env, addr) ==
  CASE addr = \hC000 -> [v |-> env.kbd, c |-> c]
    [] addr = EthAddr(DATA, env.e_ofs) -> DataRead(c, env)
    [] addr >= RING_BUF /\ addr < RING_BUF + 256 -> [v |-> c.ring[addr - RING_BUF], c |-> c]
    [] OTHER ->
         LET m == Mem(c, env, addr)
         IN  [v |-> IF m = Unknown THEN env.vis ELSE m, c |-> c]

(* a write of v to memory or I/O at addr *)
Store(c, env, addr, v) ==
  CASE addr = EthAddr(HIGH, env.e_ofs) -> [c EXCEPT !.wadr = v * 256 + LO(@)]
    [] addr = EthAddr(LOW, env.e_ofs)  -> [c EXCEPT !.wadr = HI(@) * 256 + v]
    [] addr = EthAddr(DATA, env.e_ofs) ->
         [c EXCEPT !.wadr = (@ + 1) % 65536,
                   !.w_rd = CASE c.wadr = W_RX_RD     -> v * 256 + LO(@)
                              [] c.wadr = W_RX_RD + 1 -> HI(@) * 256 + v
                              [] OTHER -> @]
    [] addr >= RING_BUF /\ addr < RING_BUF + 256 ->
         [c EXCEPT !.ring[addr - RING_BUF] = v,
                   !.ops = Append(@, [n |-> c.n, k |-> "store", i |-> addr - RING_BUF])]
    [] addr \in {\hC030, \hC020} ->
         [c EXCEPT !.aud = Append(@, [n |-> c.n, t |-> c.clk, pc |-> c.pc])]
    [] addr = VISU_PTR     -> [c EXCEPT !.visu = HI(@) * 256 + v]
    [] addr = VISU_PTR + 1 -> [c EXCEPT !.visu = v * 256 + LO(@)]
    [] addr >= \hC000 /\ addr <= \hC0FF -> c      \* speaker, tape out, soft switches
    [] addr >= \h2000 /\ addr <= \h3FFF -> c      \* hires screen
    [] OTHER ->
         [c EXCEPT !.cells = [a \in DOMAIN c.cells \cup {addr} |->
                                IF a = addr THEN v ELSE c.cells[a]]]

(* the register loads: r is what Load answered *)
IntoA(r) == SetNZ([r.c EXCEPT !.A = r.v], r.v)
IntoY(r) == SetNZ([r.c EXCEPT !.Y = r.v], r.v)

(* the zero page word a (zp) instruction goes through *)
ZpWord(c, env, zp) ==
  CASE zp = SPKR_PTR -> env.spkr
    [] zp = VISU_PTR -> c.visu
    [] OTHER -> Unknown

(* the instruction with opcode op and operand bytes b1, b2 *)
Exec(c, env, op, b1, b2) ==
  LET abs == b1 + 256 * b2
      bad == [c EXCEPT !.halt = "crash"]
      n1  == [c EXCEPT !.pc = @ + 1]
      n2  == [c EXCEPT !.pc = @ + 2]
      n3  == [c EXCEPT !.pc = @ + 3]
      rel == IF b1 >= 128 THEN b1 - 256 ELSE b1
  IN  CASE op = \hEA -> n1
        [] op = \hC8 -> LET v == (c.Y + 1) % 256 IN SetNZ([n1 EXCEPT !.Y = v], v)
        [] op = \h1A -> LET v == (c.A + 1) % 256 IN SetNZ([n1 EXCEPT !.A = v], v)
        [] op = \hA8 -> SetNZ([n1 EXCEPT !.Y = c.A], c.A)
        [] op = \hFA ->
             LET sp == (c.S + 1) % 256
                 v  == c.ring[sp]
             IN  SetNZ([n1 EXCEPT !.S = sp, !.X = v, !.plx = Append(@, v),
                                  !.ops = Append(@, [n |-> c.n, k |-> "pull", i |-> sp])],
                       v)
        [] op = \h68 ->
             LET sp == (c.S + 1) % 256
                 v  == c.ring[sp]
             IN  SetNZ([n1 EXCEPT !.S = sp, !.A = v,
                                  !.ops = Append(@, [n |-> c.n, k |-> "pla", i |-> sp])],
                       v)
        [] op \in {\h80, \h10, \hD0, \hA9, \hA0, \h29, \h09, \h85, \hB2, \hB1, \h92}
             /\ b1 = Unknown -> bad
        [] op = \h80 -> [c EXCEPT !.pc = @ + 2 + rel]
        [] op = \h10 -> IF ~c.N THEN [c EXCEPT !.pc = @ + 2 + rel] ELSE n2
        [] op = \hD0 -> IF ~c.Z THEN [c EXCEPT !.pc = @ + 2 + rel] ELSE n2
        [] op = \hA9 -> SetNZ([n2 EXCEPT !.A = b1], b1)
        [] op = \hA0 -> SetNZ([n2 EXCEPT !.Y = b1], b1)
        [] op = \h29 ->
             LET v == c.A + b1 - BitOr(c.A, b1) IN SetNZ([n2 EXCEPT !.A = v], v)
        [] op = \h09 ->
             LET v == BitOr(c.A, b1) IN SetNZ([n2 EXCEPT !.A = v], v)
        [] op = \h85 -> Store(n2, env, b1, c.A)
        [] op \in {\hB2, \hB1, \h92} /\ ZpWord(c, env, b1) = Unknown -> bad
        [] op = \hB2 ->
             IntoA(Load(n2, env, ZpWord(c, env, b1)))
        [] op = \hB1 ->
             IntoA(Load(n2, env, (ZpWord(c, env, b1) + c.Y) % 65536))
        [] op = \h92 -> Store(n2, env, ZpWord(c, env, b1), c.A)
        [] op \in {\h4C, \hAD, \hAC, \h8D, \h8E, \h8C, \h99}
             /\ (b1 = Unknown \/ b2 = Unknown) -> bad
        [] op = \h4C -> [c EXCEPT !.pc = abs, !.halt = "jump"]
        [] op = \hAD -> IntoA(Load(n3, env, abs))
        [] op = \hAC -> IntoY(Load(n3, env, abs))
        [] op = \h8D -> Store(n3, env, abs, c.A)
        [] op = \h8E -> Store(n3, env, abs, c.X)
        [] op = \h8C -> Store(n3, env, abs, c.Y)
        [] op = \h99 -> Store(n3, env, (abs + c.Y) % 65536, c.A)
        [] OTHER -> bad

(* the instructions of the catalog, and the cycles it gives the one with *)
(* opcode op (a branch over JMP LEAVE counts as taken), 0 for any other  *)
Catalog ==
  { NOP, TAY, INC, INY, PLA, PLX, BRA(0), BNE_JMP(0), BPL_JMP(0), JMP(0),
    AND_IM(0), ORA_IM(0), LDA_IM(0), LDY_IM(0), STA_ZP(0), LDA_A(0), LDY_E(0),
    STA_A(0), STX_A(0), STY_E(0), LDA_AY(0), STA_AY(0), LDA_I(0), LDA_IY(0),
    STA_I(0) }

CycOf(op) ==
  IF \E i \in Catalog : i.opc[1] = op
    THEN (CHOOSE i \in Catalog : i.opc[1] = op).cyc
    ELSE 0

(* one instruction at pc; clk counts it before it acts *)
Step(c, env) ==
  Exec([c EXCEPT !.clk = @ + CycOf(Mem(c, env, c.pc))], env,
       Mem(c, env, c.pc), Mem(c, env, c.pc + 1), Mem(c, env, c.pc + 2))

(* run until a jump is taken; fuel bounds the instructions of one pulse *)
RECURSIVE Run(_, _, _)
Run(c, env, fuel) ==
  IF c.halt # "run" THEN c
  ELSE IF fuel = 0 THEN [c EXCEPT !.halt = "crash"]
  ELSE Run(Step(c, env), env, fuel - 1)

(* the entries of the image: the base of a generator (its duty end prefix) *)
(* and the duty start GEN_END bytes after it                               *)
EntryOf(addr) ==
  LET page == HI(addr) - HI(PLAY_BUF)
      ps   == page \div DTY_MAX
      pd   == page % DTY_MAX
  IN  IF page < 0 \/ ps >= SET_NUM THEN {}
      ELSE { k \in { << ps, pg, pd >> : pg \in Slots } :
               addr \in { GenBase(k[1], k[2], k[3]),
                          GenBase(k[1], k[2], k[3]) + GEN_END } }

InImage(addr) == EntryOf(addr) # {}

(* a byte that is the page high byte of a generator: a valid selector *)
ValidSel(b) == b >= HI(PLAY_BUF) /\ b < HI(PLAY_BUF) + SET_NUM * DTY_MAX
SelSet(b)  == (b - HI(PLAY_BUF)) \div DTY_MAX
SelDuty(b) == (b - HI(PLAY_BUF)) % DTY_MAX

Next ==
  \/ \E e_ini \in EthSlots, t \in BOOLEAN : GenPlayerBegin(e_ini, t)
  \/ SlotBegin
  \/ PulseBegin
  \/ PulseStep
  \/ PulseEnd
  \/ Pulse34Step
  \/ Pulse34End
  \/ SlotEnd

vars == << genVars, playVars, walk, mainSt >>

Spec == GenInit /\ [][Next]_vars

(***************************************************************************)
(* play() and the chain it starts (player.c 374-419, 797-888), Ethernet    *)
(* build.  The specification starts where gen_player has returned.         *)
(***************************************************************************)
MaxIter   == 2     \* iterations of play's loop
MaxPulses == 11     \* generators executed
MaxKeys   == 2     \* keys pressed
ScriptLen == 2     \* length of the repeated stream

CH_ESC == 27

(* what the peers can answer *)
Keys       == {CH_ESC, 32}
RsrValues  == {\h00FF, \h0100}     \* w5100_receive_request()
RegBytes   == {0, 1}               \* a W5100 register byte, as prolog_2 reads
VisBytes   == {0}                  \* visualization bytes
HostS      == \hF0                 \* the stack pointer play() runs with
HostStack  == [i \in 0..255 |-> 0]

(* a machine at the call of play(): stack pointer sp, stack page page, *)
(* get_ostype() & APPLE_IIGS as gs, and v in the speed register        *)
Machine(sp, page, gs, v) ==
  [S |-> sp, ring |-> page, iigs |-> gs, speed0 |-> v, speed |-> v, cya |-> NoCya]

(* the Apple //e the player is run on where the machine does not matter *)
HostIIe == Machine(HostS, HostStack, FALSE, 0)

(* play() saves the speed register and sets normal speed (player.c 830-834) *)
SaveSpeed(h) ==
  IF h.iigs THEN [h EXCEPT !.cya = h.speed, !.speed = h.speed % 128] ELSE h

(* play() restores the speed register after its while loop (player.c 884-887) *)
RestoreSpeed(h) ==
  IF h.iigs THEN [h EXCEPT !.speed = h.cya] ELSE h

(* stream bytes: silence (page set 0), duty 34 in page set 1, and a byte *)
(* that is no page of the image                                         *)
StreamBytes == {HI(SILENCE), HI(s_ptr(1)) + 34, HI(VISU_BUF)}
Scripts == [1..ScriptLen -> StreamBytes]

(* the image in memory *)
Image == Player[IF t_out THEN 2 ELSE 1]

(* kbhit() and cgetc() on the keyboard latch (player.c 842, 844) *)
kbhit(k) == k >= 128
cgetc_Raw(k) == k
cgetc(k) == k % 128

(* enter(): save the stack, seed the ring buffer, start at SILENCE *)
(* (player.c 393-419)                                              *)
EnterSave_Above(c, sv) ==
  [i \in 0..255 |-> IF i > c.S THEN c.ring[i]
                    ELSE IF i = 0 THEN c.S ELSE sv[i]]

EnterSave(c, sv) ==
  [i \in 0..255 |-> IF i >= c.S THEN c.ring[i]
                    ELSE IF i = 0 THEN c.S ELSE sv[i]]

enter_ShortSeed(c) ==
  [c EXCEPT !.ring = [i \in 0..255 |-> IF i < RW_SKEW - 1 THEN HI(SILENCE) ELSE @[i]],
            !.S = 255, !.X = RW_SKEW - 1, !.A = HI(SILENCE),
            !.N = (HI(SILENCE) >= 128), !.Z = (HI(SILENCE) = 0),
            !.pc = SILENCE, !.plx = << >>, !.halt = "run",
            !.n = 0, !.clk = 0, !.runs = << >>, !.ops = << >>, !.aud = << >>]

enter(c) ==
  [c EXCEPT !.ring = [i \in 0..255 |-> IF i < RW_SKEW THEN HI(SILENCE) ELSE @[i]],
            !.S = 255, !.X = RW_SKEW - 1, !.A = HI(SILENCE),
            !.N = (HI(SILENCE) >= 128), !.Z = (HI(SILENCE) = 0),
            !.pc = SILENCE, !.plx = << >>, !.halt = "run",
            !.n = 0, !.clk = 0, !.runs = << >>, !.ops = << >>, !.aud = << >>]

(* leave(): restore the stack (player.c 374-391) *)
leave(c, sv) ==
  [c EXCEPT !.X = 0, !.S = sv[0],
            !.ring = [i \in 0..255 |-> IF i >= sv[0] THEN sv[i] ELSE @[i]],
            !.A = sv[255], !.N = FALSE, !.Z = TRUE,
            !.plx = << >>, !.halt = "run"]

(* main() where play() has loaded the visualization and starts its loop *)
MainAtPlay ==
  [NoMain EXCEPT !.pc = "play", !.do_again = TRUE, !.gens = 1, !.plays = 1,
                 !.tag = << \hA2, \h01 >>, !.covers = 4, !.v = VISU_MAX,
                 !.v_ptr = VISU_BUF + \h3000 + (VISU_MAX - VISU_L2H - 1) * \h0100]

(* play() at its loop, for the hosts, streams and outputs given *)
PlayStart(hosts, scripts, outs) ==
  /\ have_eth = TRUE
  /\ gpc = "done"
  /\ t_out \in outs
  /\ e_ofs = EOfs(PlaySlot)
  /\ tasks = FixedTasks(TRUE, PlaySlot)
  /\ st = gen_player(TRUE, PlaySlot, t_out)[<< SET_NUM - 1, GEN_NUM - 1, DTY_MAX - 1 >>]
  /\ spkr_a = SpkrPatch(spkr_a0, t_out)
  /\ spkr_ptr = SpkrWord(spkr_a)
  /\ visu_ptr = VISU_BUF
  /\ s = SET_NUM /\ g = GEN_NUM /\ d = DTY_MAX
  /\ built = AllGenerators
  /\ failed = "none"
  /\ ppc = "loop"
  /\ state = "playing"
  /\ kbd = 0
  /\ connected = TRUE
  /\ host \in { SaveSpeed(h) : h \in hosts }
  /\ cpu = [NoCpu EXCEPT !.S = host.S, !.ring = host.ring, !.visu = visu_ptr]
  /\ save = [i \in 0..255 |-> 0]
  /\ script \in scripts
  /\ did = NoDid
  /\ iters = 0 /\ pulses = 0 /\ keys = 0 /\ held = 0
  /\ WalkIdle
  /\ mainSt = MainAtPlay

PlayInit == PlayStart({HostIIe}, Scripts, BOOLEAN)

(* a key that is not the abort key toggles pausing (player.c 849-856) *)
Toggle_Stuck(was) == "pausing"

Toggle_PlayingOnly(was) == IF was = "playing" THEN "pausing" ELSE "playing"

Toggle(was) == IF was = "pausing" THEN "playing" ELSE "pausing"

(* the state the buffer level r gives (player.c 860-867) *)
Buffered_Strict(r) == IF r > \h0100 THEN "playing" ELSE "waiting"

Buffered(r) == IF r >= \h0100 THEN "playing" ELSE "waiting"

(* the image is entered (player.c 871) *)
Enters_NotPausing(now) == now # "pausing"

Enters(now) == now = "playing"

(* one iteration of play's while loop, the call of enter() included, and *)
(* what follows the loop when the connection is gone (player.c 837-888)  *)
DriverIter ==
  /\ ppc = "loop"
  /\ iters < MaxIter
  /\ iters' = iters + 1
  /\ \E r \in RsrValues :
       LET esc == kbhit(kbd) /\ cgetc(kbd) = CH_ESC
           st1 == IF kbhit(kbd) THEN Toggle(state) ELSE state
           st2 == IF st1 = "pausing" THEN st1 ELSE Buffered(r)
       IN  IF ~connected
             THEN /\ ppc' = "returned"
                  /\ did' = NoDid
                  /\ host' = RestoreSpeed(host)
                  /\ UNCHANGED << state, kbd, cpu, save >>
           ELSE IF esc
             THEN /\ ppc' = "returned"
                  /\ did' = [NoDid EXCEPT !.disc = TRUE]
                  /\ kbd' = kbd % 128
                  /\ UNCHANGED << state, cpu, save, host >>
           ELSE /\ state' = st2
                /\ UNCHANGED host
                /\ kbd' = kbd % 128
                /\ did' = [disc |-> FALSE, query |-> (st1 # "pausing"),
                           rsr |-> IF st1 # "pausing" THEN r ELSE NoRsr,
                           enter |-> Enters(st2),
                           mix |-> IF Enters(st2) THEN "off" ELSE "on"]
                /\ IF Enters(st2)
                     THEN /\ save' = EnterSave(cpu, save)
                          /\ cpu' = enter(cpu)
                          /\ ppc' = "chain"
                     ELSE UNCHANGED << ppc, cpu, save >>
  /\ held' = 0
  /\ UNCHANGED << genVars, connected, script, pulses, keys, walk, mainSt >>

(* where the chain is once a pulse has left the cpu as c1 *)
AfterPulse(c1) ==
  IF c1.halt = "crash" THEN "crash"
  ELSE IF c1.pc = LEAVE THEN "leave"
  ELSE IF InImage(c1.pc) THEN "chain"
  ELSE "crash"

PulseTo(c1) == cpu' = c1 /\ ppc' = AfterPulse(c1)

(* one generator of the image runs from its entry to the jump it takes, *)
(* as one of at most max                                                *)
PulseWithin(max) ==
  /\ ppc = "chain"
  /\ pulses < max
  /\ pulses' = pulses + 1
  /\ \E rb \in RegBytes, v \in VisBytes :
       LET env == [img |-> Image, kbd |-> kbd, reg |-> rb, script |-> script,
                   vis |-> v, e_ofs |-> e_ofs, spkr |-> spkr_ptr]
       IN  PulseTo(Run([cpu EXCEPT !.plx = << >>, !.halt = "run", !.n = @ + 1,
                                   !.runs = Append(@, cpu.pc)], env, GEN_MAX))
  /\ held' = IF kbhit(kbd) THEN held + 1 ELSE held
  /\ UNCHANGED << genVars, state, kbd, connected, save, script, did, iters,
                  keys, host, walk, mainSt >>

Pulse == PulseWithin(MaxPulses)

(* leave() returns into play's loop *)
LeaveRet ==
  /\ ppc = "leave"
  /\ cpu' = leave(cpu, save)
  /\ ppc' = "loop"
  /\ UNCHANGED << genVars, state, kbd, connected, save, script, did, iters,
                  pulses, keys, held, host, walk, mainSt >>

(* the user presses a key *)
KeyPress(k) ==
  /\ ppc \in {"loop", "chain"}
  /\ keys < MaxKeys
  /\ keys' = keys + 1
  /\ kbd' = k + 128
  /\ held' = IF kbhit(kbd) THEN held ELSE 0
  /\ UNCHANGED << genVars, ppc, state, connected, cpu, save, script, did,
                  iters, pulses, host, walk, mainSt >>

(* the server closes the connection; play() notices at its while only *)
PeerClose ==
  /\ ppc = "loop"
  /\ connected
  /\ connected' = FALSE
  /\ UNCHANGED << genVars, ppc, state, kbd, cpu, save, script, did, iters,
                  pulses, keys, held, host, walk, mainSt >>

NextPlay ==
  \/ DriverIter
  \/ Pulse
  \/ LeaveRet
  \/ \E k \in Keys : KeyPress(k)
  \/ PeerClose

SpecPlay == PlayInit /\ [][NextPlay]_vars

(***************************************************************************)
(* The transfer loop at length: the same play() and chain with no key      *)
(* pressed and a stream of page set 0, which keeps the chain in transf_1   *)
(* and transf_2 until the stores have gone round the ring buffer.          *)
(***************************************************************************)
MaxTransfer == 180    \* generators executed

TransferBytes   == {HI(SILENCE), HI(s_ptr(0)) + 34}
TransferScripts == [1..ScriptLen -> TransferBytes]

TransferInit ==
  PlayStart({HostIIe}, TransferScripts, BOOLEAN)

TransferPulse == PulseWithin(MaxTransfer)

NextTransfer ==
  \/ DriverIter
  \/ TransferPulse
  \/ LeaveRet

SpecTransfer == TransferInit /\ [][NextTransfer]_vars

(***************************************************************************)
(* main()'s loop over the tracks (a2stream.c 445-644) and play() from its  *)
(* start (player.c 797-822), Ethernet build.  What the user, the network   *)
(* and the file system answer is chosen freely.                            *)
(***************************************************************************)
MaxTotal == 3    \* tracks get_playlist() counts at most

Totals      == 0..MaxTotal
Tags        == { << \hA2, \h01 >>, << \hA2, \h00 >>, << \hA3, \h01 >> }
CoverChunks == 2 * ((\h2B00 - \h2000 + \h07FF) \div \h0800)
MainScripts == { [i \in 1..ScriptLen |-> HI(SILENCE)] }

(* the stream type main() accepts (a2stream.c 578) *)
TagOk_FirstOnly(tg) == tg[1] = \hA2

TagOk(tg) == tg[1] = \hA2 /\ tg[2] = \h01

(* if (!do_again) (a2stream.c 517) *)
NeedsGen_Always(again) == TRUE

NeedsGen(again) == ~again

(* where play() loads the chunk after chunk v (player.c 813-820) *)
NextVPtr_NoJump(v, p) == p + \h0100

NextVPtr(v, p) == IF v = VISU_L2H THEN VISU_BUF + \h3000 ELSE p + \h0100

(* continue, or the end of the loop body: i++ and the test of the for *)
Continue(ms) ==
  [ms EXCEPT !.i = @ + 1,
             !.pc = IF ms.i + 1 < ms.total THEN "url" ELSE "exit"]

(* the error branch: w5100_disconnect(); continue (a2stream.c 586-591) *)
Abandon(ms, e) == Continue([ms EXCEPT !.err = e, !.disc = TRUE])

(* main() up to its loop, and the first test of the for (a2stream.c 353-445) *)
MainBegin ==
  /\ mainSt.pc = "idle"
  /\ mainSt' = [mainSt EXCEPT !.pc = IF mainSt.i < mainSt.total THEN "url" ELSE "exit"]
  /\ UNCHANGED << genVars, playVars, walk >>

(* the playlist URL and the playlist: total_tracks = get_playlist(), or *)
(* one of the exits (a2stream.c 447-506)                                *)
Playlist ==
  /\ mainSt.pc = "url"
  /\ \E ok \in BOOLEAN, n \in Totals :
       mainSt' = IF ok THEN [mainSt EXCEPT !.total = n, !.pc = "song"]
                 ELSE [mainSt EXCEPT !.pc = "exit"]
  /\ UNCHANGED << genVars, playVars, walk >>

(* url_parse(song[i-1]) decides whether the attempt goes on or main()     *)
(* continues with the next track (a2stream.c 508-514)                     *)
SongParse ==
  /\ mainSt.pc = "song"
  /\ \E ok \in BOOLEAN :
       mainSt' = IF ok THEN [mainSt EXCEPT !.pc = "gen"] ELSE Continue(mainSt)
  /\ UNCHANGED << genVars, playVars, walk >>

(* if (!do_again) { ... gen_player(eth_init, tape_out); } (a2stream.c     *)
(* 517-533): gen_player as a whole, with the output the file selects      *)
GenPlayerCall ==
  /\ mainSt.pc = "gen"
  /\ IF NeedsGen(mainSt.do_again)
       THEN /\ mainSt' = [mainSt EXCEPT !.do_again = TRUE, !.gens = @ + 1,
                                        !.pc = "open"]
            /\ \E t \in BOOLEAN :
                 /\ t_out' = t
                 /\ spkr_a' = SpkrPatch(spkr_a, t)
                 /\ st' = gen_player(have_eth, PlaySlot, t)[
                             << SET_NUM - 1, GEN_NUM - 1, DTY_MAX - 1 >>]
            /\ gpc' = "done"
            /\ e_ofs' = EOfs(PlaySlot)
            /\ tasks' = FixedTasks(have_eth, PlaySlot)
            /\ spkr_ptr' = SpkrWord(spkr_a')
            /\ visu_ptr' = VISU_BUF
            /\ s' = SET_NUM /\ g' = GEN_NUM /\ d' = DTY_MAX
            /\ built' = AllGenerators
            /\ UNCHANGED << have_eth, failed >>
       ELSE /\ mainSt' = [mainSt EXCEPT !.pc = "open"]
            /\ UNCHANGED genVars
  /\ UNCHANGED << playVars, walk >>

(* w5100_http_open_name / _addr (a2stream.c 536-565): a new session *)
Open ==
  /\ mainSt.pc = "open"
  /\ \E ok \in BOOLEAN :
       IF ok
         THEN /\ mainSt' = [mainSt EXCEPT !.pc = "type", !.tag = << >>,
                                          !.covers = 0, !.v = 0, !.v_ptr = 0,
                                          !.last = << >>, !.err = "none",
                                          !.disc = FALSE]
              /\ connected' = TRUE
         ELSE /\ mainSt' = Continue(mainSt)
              /\ UNCHANGED connected
  /\ UNCHANGED << genVars, ppc, state, kbd, cpu, save, script, did, iters,
                  pulses, keys, held, host, walk >>

(* load(type, sizeof(type), false) and the test of the type *)
(* (a2stream.c 570-581, 586-591)                            *)
LoadType ==
  /\ mainSt.pc = "type"
  /\ \E ok \in BOOLEAN, tg \in Tags :
       IF ~ok
         THEN mainSt' = Abandon(mainSt, "type") /\ connected' = FALSE
       ELSE IF ~TagOk(tg)
         THEN mainSt' = Abandon([mainSt EXCEPT !.tag = tg], "tag") /\ connected' = FALSE
       ELSE mainSt' = [mainSt EXCEPT !.tag = tg, !.pc = "cover"] /\ UNCHANGED connected
  /\ UNCHANGED << genVars, ppc, state, kbd, cpu, save, script, did, iters,
                  pulses, keys, held, host, walk >>

(* one load() of load_hires(true) || load_hires(false) *)
(* (a2stream.c 174-198, 582-591)                       *)
LoadCover ==
  /\ mainSt.pc = "cover"
  /\ \E ok \in BOOLEAN :
       LET ms == [mainSt EXCEPT !.covers = @ + 1]
       IN  IF ~ok
             THEN mainSt' = Abandon(ms, "cover") /\ connected' = FALSE
           ELSE /\ mainSt' = [ms EXCEPT !.pc = IF ms.covers = CoverChunks
                                                 THEN "play" ELSE "cover"]
                /\ UNCHANGED connected
  /\ UNCHANGED << genVars, ppc, state, kbd, cpu, save, script, did, iters,
                  pulses, keys, held, host, walk >>

(* main() calls play(); play() up to its for loop (a2stream.c 593-619, *)
(* player.c 797-803)                                                   *)
PlayCall ==
  /\ mainSt.pc = "play"
  /\ ppc = "idle"
  /\ ppc' = "visu"
  /\ state' = "playing"
  /\ host' = HostIIe
  /\ mainSt' = [mainSt EXCEPT !.plays = @ + 1, !.v = 0, !.v_ptr = VISU_BUF]
  /\ UNCHANGED << genVars, kbd, connected, cpu, save, script, did, iters,
                  pulses, keys, held, walk >>

(* one iteration of play()'s for loop: load(v_ptr, VISU_NUM, true); after *)
(* the last one play() is at its while (player.c 806-836)                 *)
LoadVisu ==
  /\ ppc = "visu"
  /\ mainSt.v < VISU_MAX
  /\ \E ok \in BOOLEAN :
       IF ~ok
         THEN /\ mainSt' = [mainSt EXCEPT !.err = "visu", !.disc = TRUE]
              /\ ppc' = "returned"
              /\ connected' = FALSE
              /\ UNCHANGED << cpu, save, script, did, host >>
         ELSE /\ mainSt' = [mainSt EXCEPT
                              !.last = << mainSt.v_ptr, VISU_NUM >>,
                              !.v_ptr = NextVPtr(mainSt.v, mainSt.v_ptr),
                              !.v = @ + 1]
              /\ UNCHANGED connected
              /\ IF mainSt.v + 1 = VISU_MAX
                   THEN /\ ppc' = "loop"
                        /\ cpu' = [NoCpu EXCEPT !.S = host.S, !.ring = host.ring,
                                                !.visu = visu_ptr]
                        /\ save' = [i \in 0..255 |-> 0]
                        /\ script' \in MainScripts
                        /\ did' = NoDid
                        /\ host' = SaveSpeed(host)
                   ELSE UNCHANGED << ppc, cpu, save, script, did, host >>
  /\ UNCHANGED << genVars, state, kbd, iters, pulses, keys, held, walk >>

(* play() has returned: main() restores the text lines and goes on to the *)
(* next track (a2stream.c 621-644)                                        *)
PlayReturn ==
  /\ mainSt.pc = "play"
  /\ ppc = "returned"
  /\ ppc' = "idle"
  /\ state' = "playing"
  /\ connected' = FALSE
  /\ cpu' = NoCpu /\ save' = << >> /\ script' = << >> /\ did' = NoDid
  /\ held' = 0 /\ host' = NoHost
  /\ mainSt' = Continue(mainSt)
  /\ UNCHANGED << genVars, kbd, iters, pulses, keys, walk >>

MainInit == GenInit /\ have_eth

NextMain ==
  \/ MainBegin
  \/ Playlist
  \/ SongParse
  \/ GenPlayerCall
  \/ Open
  \/ LoadType
  \/ LoadCover
  \/ PlayCall
  \/ LoadVisu
  \/ PlayReturn
  \/ NextPlay

SpecMain == MainInit /\ [][NextMain]_vars

(***************************************************************************)
(* enter() and leave() on other stacks (player.c 374-419): the same play() *)
(* and chain, with the stack pointer at its ends and low enough for the    *)
(* chain to write above it.  The stack bytes are not zero, differ from the *)
(* bytes of the stream, and select page set 0 when the chain pulls one.    *)
(* The stream is silence, or starts with a selector of page set 1 that     *)
(* takes the chain out of the transfer loop.                               *)
(***************************************************************************)
StackPtrs  == {\h00, \h01, \h05, \hF0, \hFF}
StackBytes == [i \in 0..255 |-> HI(PLAY_BUF) + 1 + (i % 7)]
StackHosts == { Machine(h, StackBytes, FALSE, 0) : h \in StackPtrs }
StackScripts ==
  { sc \in Scripts : /\ sc[1] \in {HI(SILENCE), HI(s_ptr(1)) + 34}
                     /\ \A i \in 2..ScriptLen : sc[i] = HI(SILENCE) }

StackInit == PlayStart(StackHosts, StackScripts, {FALSE})

SpecStack == StackInit /\ [][NextPlay]_vars

(***************************************************************************)
(* play() on other machines (player.c 830-834, 884-887): the same play()   *)
(* and chain on an Apple //e and on an Apple IIgs at fast and at normal    *)
(* speed, with a stream of silence.                                        *)
(***************************************************************************)
SpeedValues == {\h00, \h04, \h80, \h84}
SpeedHosts ==
  {HostIIe} \cup { Machine(HostS, HostStack, TRUE, v) : v \in SpeedValues }
SpeedScripts == { sc \in Scripts : \A i \in 1..ScriptLen : sc[i] = HI(SILENCE) }

SpeedInit == PlayStart(SpeedHosts, SpeedScripts, {FALSE})

SpecSpeed == SpeedInit /\ [][NextPlay]_vars

(***************************************************************************)
(* A walk along the flow table (player.c 472-487): from any node, to the   *)
(* node its nxt names in the same page set.                                *)
(***************************************************************************)
MaxWalk == 10    \* steps of a walk

EntrySlot(ps) == CHOOSE pg \in Slots : FlowIns(ps, pg) = EntryTask(ps)

FlowInit ==
  /\ GenIdle
  /\ PlayIdle
  /\ MainIdle
  /\ walk \in { [set |-> ps, trail |-> << pg >>] : ps \in Sets, pg \in Slots }

FlowStep ==
  /\ walk.trail # << >>
  /\ Len(walk.trail) <= MaxWalk
  /\ walk' = [walk EXCEPT !.trail =
                Append(@, FlowNxt(walk.set, walk.trail[Len(walk.trail)]))]
  /\ UNCHANGED << genVars, playVars, mainSt >>

NextFlow == FlowStep

SpecFlow == FlowInit /\ [][NextFlow]_vars

(***************************************************************************)
(* Properties of the synthesis.                                            *)
(***************************************************************************)
Kinds(x, k) == SelectSeq(x.out, LAMBDA r : r.kind = k)

(* the duty the generator in x was built for *)
DutyOf(x) == IF x.ins_34 > 0 THEN 34 ELSE x.dty - spkr_a.cyc

(* gen_pulse or gen_pulse_34 has just returned to gen_player: st is the *)
(* generator of page set s, slot g, duty d - 1                          *)
JustBuilt == gpc = "duty" /\ d > 0 /\ st.ph = "done"

(* C1: every generator ends with its cycle counter at CYC_MAX exactly: the *)
(* "no cycle count overshoot" assertion never fails, and no loop of        *)
(* gen_pulse or gen_pulse_34 leaves the counter past CYC_MAX - 3 before    *)
(* the terminal jump is put.                                               *)
C1_CycleBudget ==
  /\ failed # "no cycle count overshoot"
  /\ JustBuilt => st.cyc = CYC_MAX /\ DutyOf(st) = d - 1
  /\ gpc \in {"pulse", "pulse_34"} => st.cyc <= CYC_MAX - jmp.cyc
  /\ gpc = "done" => built = AllGenerators

C1_Witness ==
  /\ gpc = "done"
  /\ built = AllGenerators
  /\ st.ph = "done" /\ st.cyc = CYC_MAX

(* C2: in a finished generator of duty d # 34 there is exactly one duty    *)
(* end: the 4-cycle direct access starting at cycle d + 4 or the 5-cycle   *)
(* indirect access starting at cycle d + 3, cycles counted from the start  *)
(* of the duty start; it completes d + 4 cycles after the duty start       *)
(* completes, and no other instruction straddles cycle d + 4.  A generator *)
(* of duty 34 has no duty end of its own: its jump goes to the base of the *)
(* next slot and completes 38 cycles after its duty start began, and every *)
(* generator begins with the 5-byte, 8-cycle duty end prefix.              *)
C2_DutyEnd ==
  JustBuilt =>
    LET dd == DutyOf(st)
        ds == Kinds(st, "dty_start")
        de == Kinds(st, "dty_end") \o Kinds(st, "dty_end_i")
        jp == Kinds(st, "jmp")
        f  == flow[s + 1][g + 1]
    IN  /\ Len(ds) = 1 /\ Len(jp) = 1
        /\ st.out[1].kind = "pre_end" /\ st.out[1].ofs = 0 /\ st.out[1].cyc = 4
        /\ st.out[2].kind = "pre_nop" /\ st.out[3].kind = "pre_nop"
        /\ ds[1].ofs = GEN_END
        /\ ds[1].at - st.out[1].at = 8
        /\ IF dd # 34
             THEN /\ Len(de) = 1
                  /\ \/ de[1].kind = "dty_end" /\ de[1].cyc = 4
                        /\ de[1].at - ds[1].at = dd + 4
                     \/ de[1].kind = "dty_end_i" /\ de[1].cyc = 5
                        /\ de[1].at - ds[1].at = dd + 3
                  /\ (de[1].at + de[1].cyc) - (ds[1].at + ds[1].cyc) = dd + 4
                  /\ \A i \in 1..Len(st.out) :
                       LET r == st.out[i]
                       IN  r.kind \notin {"dty_end", "dty_end_i"} =>
                             ~(r.at - ds[1].at < dd + 4 /\ dd + 4 < r.at + r.cyc - ds[1].at)
                  /\ st.low = f.nxt * GEN_MAX + GEN_END
             ELSE /\ Len(de) = 0
                  /\ st.low = f.nxt * GEN_MAX
                  /\ jp[1].at + jp[1].cyc - ds[1].at = 38

C2_Witness ==
  /\ JustBuilt
  /\ DutyOf(st) = 1
  /\ Len(Kinds(st, "dty_end_i")) = 1
  /\ built # {}

(* C3: in a finished generator the instructions of its task appear once   *)
(* each, in the task's order, with the task's bytes, and none is left:    *)
(* the "no instruction left" assertion never fails.                       *)
C3_TaskOrder ==
  /\ failed # "no instruction left"
  /\ (JustBuilt \/ gpc = "abort") =>
       LET tk == Kinds(st, "task")
       IN  /\ Len(tk) = Len(st.task) - 1
           /\ st.task[st.ins].opc[1] = 0
           /\ \A i \in 1..Len(tk) :
                /\ tk[i].idx = i
                /\ SubSeq(st.code, tk[i].ofs + 1, tk[i].ofs + tk[i].len) = Bytes(st.task[i])

C3_Witness ==
  /\ JustBuilt
  /\ DutyOf(st) = 34
  /\ Len(Kinds(st, "task")) = 6

(* C4: a finished generator has fewer than GEN_MAX bytes up to the low     *)
(* byte of its jump, and its jump high byte cell lies below the base of    *)
(* the next slot, GEN_MAX bytes after its own.                             *)
C4_ByteBudget ==
  /\ failed # "no byte length overshoot"
  /\ JustBuilt =>
       /\ Len(st.code) = st.ptr - st.org
       /\ st.ptr - st.org < GEN_MAX
       /\ st.org = g_ptr(s, g) + DutyOf(st) * \h0100
       /\ st.ptr < g_ptr(s, g + 1) + DutyOf(st) * \h0100
       /\ g_ptr(s, g + 1) - g_ptr(s, g) = GEN_MAX

C4_Witness ==
  /\ JustBuilt
  /\ st.ptr - st.org = 40

(* the slots a walk has been at in its first n nodes *)
Visited(n) == { walk.trail[i] : i \in 1..n }

(* C5 as stated: following the next-slot index from any node of a page set *)
(* visits all five nodes of that page set and returns to the starting      *)
(* node: after five steps the walk has been at every slot and is back      *)
(* where it started.                                                       *)
C5_FiveCycle ==
  Len(walk.trail) = GEN_NUM + 1 =>
    /\ Visited(GEN_NUM) = Slots
    /\ walk.trail[GEN_NUM + 1] = walk.trail[1]

(* C5 amended: following the next-slot index from the node the flow        *)
(* diagram enters a page set with (prolog_1 in page set 0, epilog_1 in     *)
(* page set 1) visits all five nodes of the page set in four steps, never  *)
(* returns to the entry node and from then on alternates between the last  *)
(* two nodes; exactly one of these two names the entry slot of the other   *)
(* page set as its next slot.  From any node the walk alternates between   *)
(* two nodes after at most four steps.                                     *)
C5_EntryWalk ==
  LET n == Len(walk.trail)
  IN  /\ \A i \in 1..n : i > GEN_NUM => walk.trail[i] = walk.trail[i - 2]
      /\ (n > 0 /\ walk.trail[1] = EntrySlot(walk.set)) =>
           /\ n >= GEN_NUM => Visited(GEN_NUM) = Slots
           /\ \A i \in 2..n : walk.trail[i] # walk.trail[1]
           /\ n >= GEN_NUM =>
                Cardinality({ i \in {GEN_NUM - 1, GEN_NUM} :
                                FlowNxt(walk.set, walk.trail[i])
                                  = EntrySlot(1 - walk.set) }) = 1

C5_Witness ==
  /\ Len(walk.trail) > GEN_NUM + 2
  /\ walk.trail[1] = EntrySlot(walk.set)
  /\ walk.set = 1

(* the node a walk is at *)
At(ps, pg) ==
  /\ walk.trail # << >>
  /\ walk.set = ps
  /\ walk.trail[Len(walk.trail)] = pg

(* C6 as stated: the next slot of page set 1 slot 4 (visualization tail)   *)
(* is slot 0, which in page set 0 holds the reception prolog entry, and    *)
(* the next slot of page set 0 slot 3 (second reception prolog stage) is   *)
(* slot 0, which in page set 1 holds the visualization head.               *)
C6_Crossover ==
  /\ At(1, 4) => /\ FlowIns(1, 4) = "visual_2"
                 /\ FlowNxt(1, 4) = 0
                 /\ FlowIns(0, 0) = "prolog_1"
  /\ At(0, 3) => /\ FlowIns(0, 3) = "prolog_2"
                 /\ FlowNxt(0, 3) = 0
                 /\ FlowIns(1, 0) = "visual_1"

(* C6 amended: the next slot of page set 1 slot 4 (visualization tail) is  *)
(* slot 0, which in page set 0 holds the reception prolog entry; the next  *)
(* slot of page set 0 slot 3 (second reception prolog stage) is slot 4,    *)
(* the third prolog stage of the same page set; and the next slot of page  *)
(* set 0 slot 2 (first transfer stage) is slot 1, which in page set 1      *)
(* holds the reception epilog entry.                                       *)
C6_CrossoverAsBuilt ==
  /\ At(1, 4) => /\ FlowIns(1, 4) = "visual_2"
                 /\ FlowNxt(1, 4) = 0
                 /\ FlowIns(0, 0) = "prolog_1"
  /\ At(0, 3) => /\ FlowIns(0, 3) = "prolog_2"
                 /\ FlowNxt(0, 3) = 4
                 /\ FlowIns(0, 4) = "prolog_3"
  /\ At(0, 2) => /\ FlowIns(0, 2) = "transf_1"
                 /\ FlowNxt(0, 2) = 1
                 /\ FlowIns(1, 1) = "epilog_1"

C6_Witness ==
  /\ At(0, 3)
  /\ Len(walk.trail) > 1

(* a step of the chain: one generator has run *)
PulseDone == ppc = "chain" /\ pulses' = pulses + 1

(* the bytes PLX pulled in that step are page high bytes of the image *)
PulledValid == \A i \in 1..Len(cpu'.plx) : ValidSel(cpu'.plx[i])

(* no store of the generated code has landed in a generator's bytes *)
Intact(c) == \A a \in DOMAIN c.cells : CodeByte(Image, a) = Unknown

(* control is at the entry of exactly one generator *)
InOne(c) == Cardinality(EntryOf(c.pc)) = 1

(* C7: over valid selector bytes, the generator executed at pulse k + 1 is *)
(* in the slot the flow table names as next for the generator of pulse k,  *)
(* and in the page set and at the duty the byte pulled during pulse k      *)
(* encodes: a pulse that pulled a valid selector and did not jump to LEAVE *)
(* ends at the entry of exactly that generator.                            *)
C7_ChainFollowsFlow ==
  [][(PulseDone /\ cpu'.plx # << >> /\ PulledValid /\ cpu'.pc # LEAVE) =>
       /\ ppc' = "chain"
       /\ \E k \in EntryOf(cpu.pc) :
            EntryOf(cpu'.pc) =
              { << SelSet(cpu'.plx[1]), FlowNxt(k[1], k[2]), SelDuty(cpu'.plx[1]) >> }]_vars

(* the stream has selected page set 1 at duty 34, and that generator has *)
(* chained on to the duty end prefix of the next                         *)
C7_Witness ==
  /\ ppc = "chain"
  /\ pulses > RW_SKEW + 2
  /\ \E k \in EntryOf(cpu.pc) : cpu.pc = GenBase(k[1], k[2], k[3]) /\ k[1] = 1

(* C8 as stated: at every pulse, whatever bytes the stream has delivered   *)
(* to the ring buffer, control is inside exactly one of the 360 generators *)
(* and leaves the image only through the leave routine.                    *)
C8_AlwaysInside ==
  /\ ppc # "crash"
  /\ ppc = "chain" => InOne(cpu)
  /\ ppc = "leave" => cpu.pc = LEAVE

(* C8 amended: at every pulse, as long as every byte pulled from the ring  *)
(* buffer is a page high byte of the image and the bytes of the generators *)
(* are as gen_player wrote them, control is inside exactly one of the 360  *)
(* generators, and leaves the image only through the leave routine.        *)
C8_InsideWhileValid ==
  [][(PulseDone /\ PulledValid /\ Intact(cpu')) =>
       /\ ppc' \in {"chain", "leave"}
       /\ ppc' = "chain" => InOne(cpu')
       /\ ppc' = "leave" => cpu'.pc = LEAVE]_vars

(* bytes of the stream have taken the chain into page set 1 and on *)
C8_Witness ==
  /\ ppc = "chain"
  /\ pulses > RW_SKEW + 3
  /\ Intact(cpu)
  /\ InOne(cpu)
  /\ \E k \in EntryOf(cpu.pc) : k[1] = 1

(* C9: every audio access put into a generator has the selected output as  *)
(* its target: the tape out address when t_out, else the speaker address;  *)
(* the indirect access goes through SPKR_PTR, which holds that address.    *)
AudioAddr == IF t_out THEN \hC020 ELSE \hC030

C9_UniformTarget ==
  gpc \in {"pulse", "pulse_34", "duty"} =>
    \A i \in 1..Len(st.out) :
      LET r == st.out[i]
      IN  /\ r.kind \in {"pre_end", "dty_start", "dty_end"} =>
               st.code[r.ofs + 2] + 256 * st.code[r.ofs + 3] = AudioAddr
          /\ r.kind = "dty_end_i" =>
               st.code[r.ofs + 2] = SPKR_PTR /\ spkr_ptr = AudioAddr

(* C10: in every iteration of play's loop, whatever the state, if the key  *)
(* polled is the abort key then the disconnect is signalled and play()     *)
(* returns in that iteration, without a query of the buffer level and      *)
(* without entering the generated image.                                   *)
C10_AbortKey ==
  [][(ppc = "loop" /\ iters' = iters + 1 /\ connected /\ kbd = CH_ESC + 128) =>
       /\ ppc' = "returned"
       /\ did'.disc
       /\ ~did'.query
       /\ ~did'.enter
       /\ state' = state
       /\ cpu' = cpu]_vars

(* the abort key has ended play() while it was pausing *)
C10_Witness ==
  /\ ppc = "returned"
  /\ did.disc
  /\ state = "pausing"

(* an iteration of play's loop that gets past the test of w5100_connected() *)
IterStep == ppc = "loop" /\ iters' = iters + 1 /\ connected

(* the key polled is not the abort key *)
OtherKey == kbhit(kbd) /\ cgetc(kbd) # CH_ESC

(* C11 as stated: a driver iteration that starts in state pausing and reads *)
(* a key that is not the abort key ends in state playing.                   *)
C11_ResumePlays ==
  [][(IterStep /\ state = "pausing" /\ OtherKey) => state' = "playing"]_vars

(* C11 amended: such an iteration leaves pausing and queries the buffer    *)
(* level; it ends in state playing, and enters the image, if the received  *)
(* size is at least 0x0100, and in state waiting otherwise.                *)
C11_ResumeQueries ==
  [][(IterStep /\ state = "pausing" /\ OtherKey) =>
       /\ did'.query
       /\ state' = (IF did'.rsr >= \h0100 THEN "playing" ELSE "waiting")
       /\ did'.enter = (state' = "playing")]_vars

(* two keys and two iterations: paused, then resumed into waiting *)
C11_Witness ==
  /\ ppc = "loop"
  /\ state = "waiting"
  /\ iters = 2 /\ keys = 2
  /\ ~kbhit(kbd)
  /\ did.query /\ did.rsr < \h0100

(* C12: a driver iteration that reads a key that is not the abort key      *)
(* while the state is playing or waiting ends in state pausing; it does    *)
(* not query the buffer level, does not enter the image, and switches the  *)
(* mix mode on.                                                            *)
C12_PauseKey ==
  [][(IterStep /\ state # "pausing" /\ OtherKey) =>
       /\ state' = "pausing"
       /\ ~did'.query
       /\ ~did'.enter
       /\ did'.mix = "on"
       /\ ppc' = "loop"
       /\ cpu' = cpu]_vars

(* the first iteration has read a key and paused *)
C12_Witness ==
  /\ ppc = "loop"
  /\ state = "pausing"
  /\ iters = 1 /\ keys = 1
  /\ ~kbhit(kbd)
  /\ did.mix = "on" /\ ~did.query

(* C13: in an iteration without a key press, a state of playing or waiting *)
(* becomes playing if the received size is at least 0x0100 and waiting     *)
(* otherwise, whichever of the two it was; a state of pausing stays, and   *)
(* the buffer level is not asked for.                                      *)
C13_BufferLevel ==
  [][(IterStep /\ ~kbhit(kbd)) =>
       IF state = "pausing"
         THEN state' = "pausing" /\ ~did'.query /\ did'.rsr = NoRsr
         ELSE /\ did'.query
              /\ did'.rsr \in RsrValues
              /\ state' = (IF did'.rsr >= \h0100 THEN "playing" ELSE "waiting")]_vars

(* no key: the first iteration waited, the second found exactly 0x0100 *)
(* bytes and plays                                                     *)
C13_Witness ==
  /\ state = "playing"
  /\ iters = 2 /\ keys = 0 /\ pulses = 0
  /\ did.rsr = \h0100

(* C14: an iteration that does not return enters the image if and only if  *)
(* the state after key and buffer handling is playing, and then a received *)
(* size of at least 0x0100 was read in that iteration and the mix mode is  *)
(* switched off; an iteration ending in pausing or waiting does not enter  *)
(* the image and switches the mix mode on.                                 *)
C14_EnterIffPlaying ==
  [][(IterStep /\ ppc' # "returned") =>
       /\ did'.enter = (state' = "playing")
       /\ did'.enter =>
            /\ ppc' = "chain" /\ cpu'.pc = SILENCE
            /\ did'.rsr >= \h0100
            /\ did'.mix = "off"
       /\ state' \in {"pausing", "waiting"} =>
            /\ ~did'.enter
            /\ did'.mix = "on"
            /\ ppc' = "loop" /\ cpu' = cpu]_vars

(* an iteration has ended in waiting: mix mode on, the image not entered *)
C14_Witness ==
  /\ ppc = "loop"
  /\ state = "waiting"
  /\ iters = 1
  /\ did.mix = "on" /\ ~did.enter /\ did.rsr = \h00FF

(* a pulse has ended with the jump to the leave routine *)
ChainLeaves == ppc = "chain" /\ ppc' = "leave"

FlowNodes == SET_NUM * GEN_NUM

(* the generator at pc runs the task named n *)
Runs(pc, n) == \E k \in EntryOf(pc) : FlowIns(k[1], k[2]) = n

InDriver == ppc \in {"loop", "returned"}

(* the stack pointer and the stack page from it upwards are the host's *)
StackAsHost ==
  /\ cpu.S = host.S
  /\ \A i \in host.S..255 : cpu.ring[i] = host.ring[i]

ImageRuns == ppc \in {"chain", "leave"}

(* what holds of a session in every state: a failure has disconnected and *)
(* nothing of the image has run; a wrong tag came before any cover load;  *)
(* play() is reached with the tag and the cover art, its loop with all    *)
(* chunks                                                                 *)
SessionSound ==
  /\ mainSt.err # "none" => mainSt.disc /\ did = NoDid /\ cpu = NoCpu
  /\ mainSt.disc => ppc \in {"idle", "returned"}
  /\ mainSt.tag \notin {<< >>, << \hA2, \h01 >>}
       => mainSt.err = "tag" /\ mainSt.covers = 0
  /\ ppc \in {"visu", "loop"} \/ ImageRuns
       => /\ mainSt.tag = << \hA2, \h01 >>
          /\ mainSt.covers = 4
          /\ mainSt.err = "none"
  /\ ppc = "loop" \/ ImageRuns => mainSt.v = 140

(* a read of main()'s handshake or of play()'s preload that does not go *)
(* on to the next read or to playback abandons the session              *)
FailureAbandons ==
  /\ (mainSt.pc \in {"type", "cover"} /\ mainSt'.pc \notin {"cover", "play"})
       => mainSt'.disc /\ mainSt'.err # "none" /\ ppc' = "idle"
  /\ (ppc = "visu" /\ ppc' \notin {"visu", "loop"})
       => mainSt'.disc /\ mainSt'.err = "visu" /\ ppc' = "returned"

(* C18: if the read of the two handshake bytes fails, the tag is not      *)
(* (0xA2, 0x01), a cover art load fails or a visualization chunk load     *)
(* fails, the session is abandoned: w5100_disconnect() is called and the  *)
(* generated image is not entered in that session; with a wrong tag no    *)
(* cover art load is called.                                              *)
C18_FailedSessionAbandoned == []SessionSound /\ [][FailureAbandons]_vars

(* a track has played, and the next session is rejected for its tag *)
C18_Witness ==
  /\ mainSt.plays = 1
  /\ mainSt.i = 3
  /\ mainSt.err = "tag"
  /\ mainSt.tag = << \hA2, \h00 >>
  /\ mainSt.disc

(* where the claim puts chunk v *)
VisuDest(v) ==
  IF v <= 13 THEN VISU_BUF + v * \h0100
  ELSE VISU_BUF + \h3000 + (v - 14) * \h0100

(* one chunk is loaded *)
ChunkLoaded ==
  /\ mainSt'.v = mainSt.v + 1
  /\ mainSt'.last = << VisuDest(mainSt.v), 39 >>
  /\ mainSt.v > 0 =>
       /\ mainSt'.last[1] > mainSt.last[1]
       /\ mainSt'.last[1] - mainSt.last[1] = \h0100 <=> mainSt.v # 14

(* C19: play() loads 140 chunks of 39 bytes in order, chunk v at          *)
(* VISU_BUF + v*0x0100 for v = 0..13 and at VISU_BUF + 0x3000 +           *)
(* (v-14)*0x0100 for v = 14..139, so the destinations increase, by 0x0100 *)
(* except once after chunk 13; the play loop is not reached before all    *)
(* 140 are loaded.                                                        *)
C19_VisuChunks ==
  /\ [][(ppc = "visu" /\ mainSt'.v # mainSt.v) => ChunkLoaded]_vars
  /\ [](mainSt.v \in 0..140)
  /\ []((ppc = "loop" \/ ImageRuns) => mainSt.v = 140 /\ Len(mainSt.last) = 2)

(* the last chunk is loaded and the generated image runs *)
C19_Witness ==
  /\ ppc = "chain"
  /\ mainSt.v = 140
  /\ mainSt.last = << VISU_BUF + \h3000 + 125 * \h0100, 39 >>

(* C20: over the track attempts of main()'s loop (URL parse failure,      *)
(* connection failure, rejected stream, playback), play() is not called   *)
(* before gen_player() has built all 360 generators, and gen_player() is  *)
(* called once, before the first playback, and not again for later        *)
(* tracks.                                                                *)
C20_GeneratedOnce ==
  /\ mainSt.gens <= 1
  /\ mainSt.gens = 1 <=> mainSt.do_again
  /\ mainSt.gens = 1 => gpc = "done" /\ failed = "none"
  /\ mainSt.gens = 0 => gpc = "idle" /\ built = {}
  /\ (mainSt.plays > 0 \/ mainSt.pc \in {"open", "type", "cover", "play"})
       => /\ mainSt.gens = 1
          /\ built = AllGenerators
          /\ Cardinality(built) = 2 * 5 * 36

(* a second track plays on the generators built for the first *)
C20_Witness ==
  /\ mainSt.plays = 2
  /\ mainSt.gens = 1
  /\ ppc = "chain"

(* C21 as stated: neither duty 1 nor duty 34 is built by gen_pulse. *)
C21_BoundariesApart == gpc = "pulse" => d \notin {1, 34}

(* C21 amended: duty 34, and no other, is built by gen_pulse_34; the      *)
(* other 35 duties are built by gen_pulse, duty 1 among them, and there   *)
(* gen_pulse puts the 5-cycle indirect duty end right after the duty      *)
(* start.                                                                 *)
C21_OnlyDuty34Apart ==
  /\ gpc = "pulse" => d # 34 /\ st.ins_34 = 0
  /\ gpc = "pulse_34" => d = 34 /\ st.ins_34 > 0
  /\ (gpc = "pulse" /\ d = 1 /\ Len(st.out) > 4) => st.out[5].kind = "dty_end_i"
  /\ JustBuilt =>
       /\ st.ins_34 > 0 <=> d - 1 = 34
       /\ d - 1 = 1 => /\ Len(Kinds(st, "dty_end_i")) = 1
                       /\ Len(Kinds(st, "dty_end")) = 0

(* gen_pulse is building duty 1 and has put its duty end *)
C21_Witness ==
  /\ gpc = "pulse"
  /\ d = 1
  /\ Len(st.out) = 5
  /\ st.out[5].kind = "dty_end_i"

(* the low byte of the terminal jump of the generator just built, and the *)
(* next-slot index of its flow node                                       *)
JumpLow == st.code[Len(st.code)]
NxtOf   == flow[s + 1][g + 1].nxt

(* C22 as stated: in every generator the low byte of the terminal jump is *)
(* the base offset of the next slot, next(s) * 43.                        *)
C22_JumpToBase == JustBuilt => JumpLow = NxtOf * 43

(* C22 amended: the low byte of the terminal jump is next(s) * 43 in the  *)
(* generators of duty 34, and next(s) * 43 + 5 in those of every other    *)
(* duty, which jump past the 5-byte duty end at the base of the slot.     *)
C22_JumpPastPrefix ==
  JustBuilt =>
    /\ st.code[Len(st.code) - 1] = jmp.opc[1]
    /\ JumpLow = st.low
    /\ NxtOf \in 0..(GEN_NUM - 1)
    /\ JumpLow = (IF d - 1 = 34 THEN NxtOf * 43 ELSE NxtOf * 43 + 5)

(* a generator of page set 1 that jumps to slot 4, past its duty end *)
C22_Witness ==
  /\ JustBuilt
  /\ s = 1
  /\ NxtOf = 4
  /\ d - 1 = 35
  /\ JumpLow = 4 * 43 + 5

(* the instruction record r begins with the opcode of instruction i *)
IsOp(r, i) == st.code[r.ofs + 1] = i.opc[1]

(* C23: every generator has exactly one PLX and exactly one STX, the PLX  *)
(* before the STX and the STX before the terminal jump, in the bytes and  *)
(* in the cycles, so the STX of a pulse has written the jump's high byte  *)
(* before the jump reads it; the "no next sample work left" assertion     *)
(* never fails.                                                           *)
C23_OnePullOneStore ==
  /\ failed # "no next sample work left"
  /\ JustBuilt =>
       LET px == Kinds(st, "plx")
           sx == Kinds(st, "stx")
           jp == Kinds(st, "jmp")
       IN  /\ Len(px) = 1 /\ Len(sx) = 1 /\ Len(jp) = 1
           /\ IsOp(px[1], plx) /\ IsOp(sx[1], stx) /\ IsOp(jp[1], jmp)
           /\ px[1].ofs < sx[1].ofs /\ sx[1].ofs < jp[1].ofs
           /\ px[1].at + px[1].cyc <= sx[1].at
           /\ sx[1].at + sx[1].cyc <= jp[1].at
           /\ jp[1].ofs + 2 = Len(st.code)
           /\ st.ins_34 = 0 => st.nxt = "done"
           /\ \A n \in 1..Len(st.out) :
                st.out[n].kind \notin {"plx", "stx"}
                  => ~IsOp(st.out[n], plx) /\ ~IsOp(st.out[n], stx)

(* a generator of duty 0: the pull does not fit before the duty end and *)
(* follows it                                                           *)
C23_Witness ==
  /\ JustBuilt
  /\ d - 1 = 0
  /\ Kinds(st, "plx")[1].at = 8
  /\ Kinds(st, "stx")[1].at = 12
  /\ st.nxt = "done"

(* the address in the operand of the instruction record r *)
OperandOf(r) == st.code[r.ofs + 2] + 256 * st.code[r.ofs + 3]

(* C24: in every generator, of gen_pulse and of gen_pulse_34, the operand *)
(* of the STX is the address of the high byte of that generator's own     *)
(* terminal jump, the byte after the jump opcode and the low byte, and of *)
(* no other generator's.                                                  *)
C24_StoreOperand ==
  JustBuilt =>
    LET sx == Kinds(st, "stx")[1]
        jp == Kinds(st, "jmp")[1]
    IN  /\ ~st.wild
        /\ st.loc = st.org + sx.ofs + 1
        /\ \A n \in 1..Len(st.code) : st.code[n] # Unwritten
        /\ OperandOf(sx) = st.org + jp.ofs + 2
        /\ OperandOf(sx) = st.ptr
        /\ st.org = GenBase(s, g, d - 1)
        /\ OperandOf(sx) > st.org /\ OperandOf(sx) < st.org + GEN_MAX

(* a generator of gen_pulse_34 with the operand of its STX set *)
C24_Witness ==
  /\ JustBuilt
  /\ st.ins_34 > 0
  /\ s = 1 /\ g = 4
  /\ OperandOf(Kinds(st, "stx")[1]) = GenBase(1, 4, 34) + Len(st.code)

(* the generator just built is one of gen_pulse *)
General == JustBuilt /\ st.ins_34 = 0

(* kinds of the n-th instruction put: a filler, work of the pulse (the   *)
(* pull, the store, a task instruction), the duty end                    *)
Filler(n) == st.out[n].kind \in {"bra", "nop"}
Work(n)   == st.out[n].kind \in {"plx", "stx", "task"}
EndAt     == CHOOSE n \in 1..Len(st.out) : st.out[n].kind \in {"dty_end", "dty_end_i"}
Bras(from, to) == { n \in from..to : st.out[n].kind = "bra" }

(* the work put next after the n-th instruction, 0 if there is none *)
NextWork(n) ==
  IF \E m \in (n + 1)..Len(st.out) : Work(m)
    THEN CHOOSE m \in (n + 1)..Len(st.out) :
           Work(m) /\ \A k \in (n + 1)..(m - 1) : ~Work(k)
    ELSE 0

(* C25 as stated: in a generator of gen_pulse every filler comes after    *)
(* all task instructions, and there is at most one 3-cycle filler.        *)
C25_FillersLast ==
  General =>
    /\ \A n \in 1..Len(st.out) : Filler(n) => NextWork(n) = 0
    /\ Cardinality(Bras(1, Len(st.out))) <= 1

(* C25 amended: in a generator of gen_pulse a filler before the duty end  *)
(* stands where the work to put next (the pull, the store, the next task  *)
(* instruction) does not fit before the duty end, and a filler after the  *)
(* duty end comes after all work; a 3-cycle filler stands only where the  *)
(* cycles left to the duty end, or after it to the terminal jump, are odd *)
(* in number, a 2-cycle filler only where they are even: at most one      *)
(* 3-cycle filler before the duty end and at most one after it.           *)
C25_FillWhereNothingFits ==
  General =>
    /\ \A n \in 1..Len(st.out) :
         Filler(n) =>
           LET r    == st.out[n]
               left == IF n < EndAt THEN st.dty - r.at
                       ELSE CYC_MAX - jmp.cyc - r.at
           IN  /\ left > 0
               /\ r.kind = "bra" <=> left % 2 = 1
               /\ IF n < EndAt
                    THEN NextWork(n) # 0 => r.at + st.out[NextWork(n)].cyc > st.dty
                    ELSE NextWork(n) = 0
    /\ Cardinality(Bras(1, EndAt)) <= 1
    /\ Cardinality(Bras(EndAt, Len(st.out))) <= 1

(* a generator with a 3-cycle filler before the duty end, ahead of the *)
(* pull, and another after it                                          *)
C25_Witness ==
  /\ General
  /\ Cardinality(Bras(1, EndAt)) = 1
  /\ Cardinality(Bras(EndAt, Len(st.out))) = 1
  /\ st.out[5].kind = "bra"
  /\ NextWork(5) # 0

(* the places in st.out of the pull and of task instruction i *)
PullAt    == CHOOSE n \in 1..Len(st.out) : st.out[n].kind = "plx"
TaskAt(i) == CHOOSE n \in 1..Len(st.out) : st.out[n].kind = "task" /\ st.out[n].idx = i

(* the second task instruction is a branch over JMP LEAVE *)
LeaveBranch == st.task[2].opc[1] \in {BPL_JMP(LEAVE).opc[1], BNE_JMP(LEAVE).opc[1]}

(* C27: in every generator whose task begins with a 4-cycle instruction   *)
(* (prolog_1, prolog_2, init_vis), at every duty, the PLX is put before   *)
(* the first task instruction; so no PLX stands between the load and the  *)
(* branch to LEAVE of prolog_1 and prolog_2, and init_vis pulls the       *)
(* sample (PLX) before the visualization byte (PLA).                      *)
C27_PullBeforeTask ==
  JustBuilt =>
    /\ FlowIns(s, g) \in {"prolog_1", "prolog_2", "init_vis"} => st.task[1].cyc = 4
    /\ st.task[1].cyc = 4 =>
         /\ PullAt < TaskAt(1)
         /\ st.out[PullAt].ofs < st.out[TaskAt(1)].ofs
         /\ LeaveBranch =>
              \A n \in TaskAt(1)..TaskAt(2) :
                st.out[n].kind \in {"task", "stx", "dty_end", "dty_end_i", "nop", "bra"}
         /\ FlowIns(s, g) = "init_vis" =>
              /\ st.code[st.out[TaskAt(1)].ofs + 1] = PLA.opc[1]
              /\ \A n \in 1..(TaskAt(1) - 1) : ~IsOp(st.out[n], PLA)

(* a generator of prolog_2 of the Ethernet build whose pull comes after *)
(* the duty end and before the load                                     *)
C27_Witness ==
  /\ JustBuilt
  /\ have_eth
  /\ FlowIns(s, g) = "prolog_2"
  /\ LeaveBranch
  /\ st.out[PullAt].at > st.dty
  /\ TaskAt(1) = PullAt + 2

(* the offsets in its page that the generator of slot pg on page p of     *)
(* image im takes: its bytes and the high byte cell of its jump           *)
SlotBytes(im, p, pg) ==
  LO(g_ptr(0, pg)) .. (LO(g_ptr(0, pg)) + Len(Player[im][p + 1][pg + 1]))

(* in every page of both images the five slots lie below offset 0xD8 *)
SlotsBelowChunks ==
  \A im \in 1..2, p \in 0..(SET_NUM * DTY_MAX - 1), pg \in Slots :
    \A o \in SlotBytes(im, p, pg) : o < \hD8

(* the first and the last address the last visualization load wrote *)
ChunkLo == mainSt.last[1]
ChunkHi == mainSt.last[1] + mainSt.last[2] - 1

(* C29: in every page of the image the five slots take only offsets below *)
(* 0xD8, and no byte a visualization chunk writes (39 bytes from offset   *)
(* 0xD8 of its page, from chunk 14 on in pages of the image) is a byte of *)
(* a generator, the high byte cell of a generator's jump, or a byte of    *)
(* the stack save page.                                                   *)
C29_ChunksClear ==
  /\ SlotsBelowChunks
  /\ mainSt.last # << >> =>
       /\ LO(mainSt.last[1]) = \hD8
       /\ mainSt.last[2] = 39
       /\ HI(ChunkHi) = HI(ChunkLo)
       /\ HI(ChunkLo) # HI(SAVE_BUF)
       /\ CodeByte(Image, ChunkLo) = Unknown
       /\ HI(ChunkLo) \in HI(PLAY_BUF)..(HI(PLAY_BUF) + SET_NUM * DTY_MAX - 1) =>
            \A im \in 1..2, pg \in Slots :
              \A o \in SlotBytes(im, HI(ChunkLo) - HI(PLAY_BUF), pg) : o < LO(ChunkLo)

(* the last chunk that lands in a page of the image is loaded *)
C29_Witness ==
  /\ ppc = "visu"
  /\ mainSt.v = VISU_L2H + 1 + SET_NUM * DTY_MAX
  /\ HI(mainSt.last[1]) = HI(PLAY_BUF) + SET_NUM * DTY_MAX - 1
  /\ LO(mainSt.last[1]) = \hD8


(* the slots the chain passes from slot 0 on, by the flow table *)
RECURSIVE SlotAfter(_)
SlotAfter(k) == IF k = 1 THEN 0 ELSE FlowNxt(0, SlotAfter(k - 1))

(* where pulse k after enter() begins if all before it ran at silence: *)
(* the first at the address enter() jumps to, the others at the entry  *)
(* the jump of a generator leads to                                    *)
SilentRun(k) ==
  IF k = 1 THEN SILENCE
  ELSE GenBase(0, SlotAfter(k), DTY_MAX \div 2) + GEN_END

(* the chain has been in the transfer loop from pulse RW_SKEW to pulse n *)
InTransfer(n) ==
  \A k \in RW_SKEW..n :
    \E e \in EntryOf(cpu.runs[k]) : FlowIns(e[1], e[2]) \in {"transf_1", "transf_2"}

Stores == { j \in 1..Len(cpu.ops) : cpu.ops[j].k = "store" }
Pulls  == { j \in 1..Len(cpu.ops) : cpu.ops[j].k = "pull" }

(* C26: enter() leaves the read cursor at index 0 and the silence       *)
(* selector in indices 0..RW_SKEW-1 and starts at the page-set-0 slot-0 *)
(* generator of duty 18, which is prolog_1; the pulses after it run     *)
(* prolog_1, prolog_2, prolog_3, transf_1 at the silence duty, as far   *)
(* as the chain gets; the first store to the ring buffer goes to index  *)
(* RW_SKEW; and while the chain has been in the transfer loop, every    *)
(* index >= RW_SKEW that is pulled was stored in an earlier pulse.      *)
C26_EnterPipeline ==
  /\ (ppc = "chain" /\ cpu.n = 0) =>
       /\ (cpu.S + 1) % 256 = 0
       /\ \A i \in 0..(RW_SKEW - 1) : cpu.ring[i] = HI(SILENCE)
       /\ SelSet(HI(SILENCE)) = 0 /\ SelDuty(HI(SILENCE)) = 18
       /\ cpu.pc = GenBase(0, 0, 18)
       /\ FlowIns(0, 0) = "prolog_1"
  /\ << FlowIns(0, SlotAfter(1)), FlowIns(0, SlotAfter(2)),
        FlowIns(0, SlotAfter(3)), FlowIns(0, SlotAfter(4)) >>
       = << "prolog_1", "prolog_2", "prolog_3", "transf_1" >>
  /\ \A k \in 1..Len(cpu.runs) : k <= RW_SKEW => cpu.runs[k] = SilentRun(k)
  /\ \A j \in Stores :
       (\A h \in Stores : h >= j) =>
         cpu.ops[j].i = RW_SKEW /\ cpu.ops[j].n = RW_SKEW
  /\ \A j \in Pulls :
       (cpu.ops[j].i >= RW_SKEW /\ InTransfer(cpu.ops[j].n)) =>
         \E h \in Stores : /\ cpu.ops[h].i = cpu.ops[j].i
                           /\ cpu.ops[h].n < cpu.ops[j].n

(* nine pulses after enter(), the last five of them pulling what the *)
(* transfer loop stored                                              *)
C26_Witness ==
  /\ ppc = "chain"
  /\ Len(cpu.runs) = 2 * RW_SKEW + 1
  /\ InTransfer(2 * RW_SKEW + 1)
  /\ \E j \in Pulls : cpu.ops[j].i = 2 * RW_SKEW /\ cpu.ops[j].n = 2 * RW_SKEW + 1

(* the ring buffer indices stored to since enter(), in order *)
StoreOps == SelectSeq(cpu.ops, LAMBDA o : o.k = "store")

(* the task of the generator entered at addr, by the layout of a page *)
(* (player.c 165-172, 771-778)                                        *)
TaskAtEntry(addr) == FlowIns(SelSet(HI(addr)), LO(addr) \div GEN_MAX)

(* the stores of so are consecutive from RW_SKEW, the first of every *)
(* three by transf_1 in one pulse, the other two by transf_2 in the  *)
(* pulse after it                                                    *)
ThreePerPair(so, runs) ==
  \A j \in 1..Len(so) :
    /\ so[j].i = (RW_SKEW + j - 1) % 256
    /\ so[j].n = RW_SKEW + 2 * ((j - 1) \div 3) + (IF (j - 1) % 3 = 0 THEN 0 ELSE 1)
    /\ TaskAtEntry(runs[so[j].n]) = IF (j - 1) % 3 = 0 THEN "transf_1" ELSE "transf_2"

(* n pulses have made all the stores of their transfer tasks *)
StoresDue(n) ==
  IF n < RW_SKEW THEN 0
  ELSE 3 * ((n - RW_SKEW + 1) \div 2) + ((n - RW_SKEW + 1) % 2)

(* C30: after prolog_3, the alternation transf_1, transf_2, ... stores to *)
(* the ring buffer indices RW_SKEW, RW_SKEW + 1, ... modulo 256: the j-th *)
(* store since enter() goes to index RW_SKEW + j - 1 modulo 256, and      *)
(* every pair of pulses makes three stores, one in transf_1 and two in    *)
(* transf_2.                                                              *)
C30_ConsecutiveStores ==
  /\ ThreePerPair(StoreOps, cpu.runs)
  /\ ppc = "chain" => Len(StoreOps) = StoresDue(Len(cpu.runs))
  /\ \A k \in RW_SKEW..Len(cpu.runs) :
       TaskAtEntry(cpu.runs[k]) =
         IF (k - RW_SKEW) % 2 = 0 THEN "transf_1" ELSE "transf_2"

(* the stores have gone round the ring buffer and reached RW_SKEW again *)
C30_Witness ==
  /\ ppc = "chain"
  /\ Len(StoreOps) > 256
  /\ StoreOps[256 - RW_SKEW + 1].i = 0
  /\ StoreOps[257].i = RW_SKEW

(* what an access to the speaker or to tape out is, by the offset in its *)
(* generator of the address after it: the STA of the prefix ends at 3,   *)
(* the duty start at GEN_END + 3, a duty end further on                  *)
AudOfs(a) == LO(a) - GEN_MAX * ((LO(a) - 1) \div GEN_MAX)

AudKind(a) ==
  IF AudOfs(a) = 3 THEN "prefix"
  ELSE IF AudOfs(a) = GEN_END + 3 THEN "start"
  ELSE "end"

(* the duty of the generator pulse k ran *)
DutyOfRun(k) == SelDuty(HI(cpu.runs[k]))

Starts == SelectSeq(cpu.aud, LAMBDA a : AudKind(a.pc) = "start")

(* from the access at index from on, the accesses are a duty start, a *)
(* duty end, a duty start, ..., each duty end its duty and the four   *)
(* cycles of the access after its duty start                          *)
StartEndPairs(au, from) ==
  \A j \in from..Len(au) :
    IF (j - from) % 2 = 0
      THEN AudKind(au[j].pc) = "start"
      ELSE /\ AudKind(au[j].pc) \in {"end", "prefix"}
           /\ au[j].t - au[j - 1].t = DutyOfRun(au[j - 1].n) + 4

(* consecutive duty starts are CYC_MAX cycles apart *)
StartsApart(ds) == \A j \in 2..Len(ds) : ds[j].t - ds[j - 1].t = CYC_MAX

(* from the access at index from on, the prefix has run in the pulses *)
(* after a generator of duty 34 only                                  *)
PrefixAfter34(au, from) ==
  \A j \in from..Len(au) :
    AudKind(au[j].pc) = "prefix" => au[j].n > 1 /\ DutyOfRun(au[j].n - 1) = 34

(* C28 as stated: along a chain started by enter(), over valid selector *)
(* bytes, the accesses to the audio device are one duty start and one   *)
(* duty end per pulse, from the first pulse on, the duty starts 46      *)
(* cycles apart, and the prefix of a generator runs only when it is     *)
(* reached from a generator of duty 34.                                 *)
C28_TwoAccessesPerPulse ==
  Intact(cpu) =>
    /\ StartEndPairs(cpu.aud, 1)
    /\ StartsApart(Starts)
    /\ PrefixAfter34(cpu.aud, 1)

(* what holds instead: enter() jumps to offset 0 of the silence generator, *)
(* so the first pulse begins with the access of the prefix, 8 cycles       *)
(* before its duty start, and lasts 54 cycles; from the duty start of the  *)
(* first pulse on the accesses are as stated                               *)
PrefixAtEntry ==
  Intact(cpu) =>
    /\ cpu.aud # << >> =>
         /\ AudKind(cpu.aud[1].pc) = "prefix"
         /\ cpu.aud[1].n = 1 /\ cpu.aud[1].t = 4
         /\ cpu.runs[1] = SILENCE
    /\ Len(cpu.aud) > 1 => cpu.aud[2].t = 2 * STA_A(0).cyc + 2 * NOP.cyc
    /\ StartEndPairs(cpu.aud, 2)
    /\ StartsApart(Starts)
    /\ PrefixAfter34(cpu.aud, 2)
    /\ \A k \in 2..Len(cpu.runs) :
         (LO(cpu.runs[k]) % GEN_MAX = 0) = (DutyOfRun(k - 1) = 34)

(* a generator of duty 34 has run and the prefix of the next has ended *)
(* its duty                                                            *)
AfterDuty34 ==
  /\ ppc = "chain"
  /\ Intact(cpu)
  /\ \E j \in 2..Len(cpu.aud) :
       /\ AudKind(cpu.aud[j].pc) = "prefix"
       /\ cpu.aud[j].t - cpu.aud[j - 1].t = 34 + 4

(* play() has returned on an Apple IIgs *)
ReturnedOnGS == ppc = "returned" /\ host.iigs

(* C31 as stated: on an Apple IIgs, on every path by which play() returns *)
(* after it has saved the speed register and set normal speed (the end of *)
(* the loop on disconnect, and the abort key in the loop), the speed      *)
(* register holds its saved value again when play() returns.              *)
C31_SpeedRestored ==
  (ReturnedOnGS /\ host.cya # NoCya) => host.speed = host.speed0

(* what holds instead: the return after the loop restores the register; *)
(* the return on the abort key leaves it at normal speed, the other     *)
(* bits as they were                                                    *)
SpeedAfterReturn ==
  /\ host.cya # NoCya => host.iigs /\ host.cya = host.speed0
  /\ (ReturnedOnGS /\ ~did.disc) => host.speed = host.speed0
  /\ (ReturnedOnGS /\ did.disc) => host.speed = host.speed0 % 128
  /\ ~host.iigs => host.speed = host.speed0 /\ host.cya = NoCya

(* the abort key has ended play() on an Apple IIgs that ran fast *)
AbortedFast ==
  /\ ReturnedOnGS
  /\ did.disc
  /\ host.speed0 >= 128
  /\ host.speed # host.speed0

(* the connection has ended play() on an Apple IIgs that ran fast *)
ClosedFast ==
  /\ ReturnedOnGS
  /\ ~did.disc
  /\ host.speed0 >= 128
  /\ host.speed = host.speed0
=============================================================================
